---- MODULE Spec2Model ----
(***************************************************************************)
(* Provider abstraction, provider registry and scan engine of the barcode  *)
(* reader: the four provider variants' init/scan/destroy contract, the     *)
(* registry's load cache and current-provider pointer, and the scan        *)
(* engine's asynchronous operations, each split at its await points.       *)
(***************************************************************************)
EXTENDS Integers, Sequences, FiniteSets, TLC

VARIABLES
    inst,        \* every provider instance constructed so far (index = identity)
    loaded,      \* ProviderRegistry.loadedProviders : catalog key -> instance or 0
    regCurrent,  \* ProviderRegistry.currentProvider (0 = null)
    stored,      \* localStorage['barcode-scanner-provider'] ("" = unset)
    scCurrent,   \* BarcodeScanner.currentProvider (0 = null)
    isScanning,  \* BarcodeScanner.isScanning
    stream,      \* BarcodeScanner.stream # null (a held stream has live tracks)
    srcObject,   \* videoElement.srcObject # null
    leaked,      \* acquired streams with live tracks that nothing refers to
    onloaded,    \* the call whose onloadedmetadata/onerror handlers are installed
    loops,       \* sampling-loop activations: decode in flight or timer pending
    listeners,   \* BarcodeScanner.eventListeners : kind -> listeners in order
    tasks,       \* asynchronous calls in flight, one record per call
    call,        \* the public call entered in this step ("none" otherwise)
    last,        \* the call that settled in this step, and how
    emitted,     \* the event emitted in this step and the listeners it called
    issued,      \* the decode call issued on a provider in this step
    pv,          \* a stand-alone provider instance (provider contract)
    pvOut,       \* outcome of the last operation on pv
    session,     \* decode calls and 'success' events of one scanning session
    app          \* the application: the image input's value, a formatted error

regVars == <<inst, loaded, regCurrent, stored>>
scanVars == <<scCurrent, isScanning, stream, srcObject, leaked, onloaded, loops>>
eventVars == <<call, last, emitted, issued>>
pvVars == <<pv, pvOut>>
vars == <<regVars, scanVars, listeners, tasks, eventVars, pvVars, session, app>>

(***************************************************************************)
(* Bounds                                                                  *)
(***************************************************************************)
MaxInst == 2        \* provider instances constructed in one run
MaxTasks == 2       \* asynchronous calls in flight at the same time
MaxLoops == 1       \* sampling-loop activations alive at the same time
MaxLeaked == 0      \* unreferenced live camera streams
MaxDestroys == 2    \* consecutive destroy() calls on the stand-alone provider
MaxScanLoops == 2   \* loop activations alive at once when only start/stop are called
MaxScanLeaked == 1  \* unreferenced live streams when only start/stop are called
MaxFrames == 3      \* decode calls counted in one scanning session
MaxListeners == 3   \* listeners registered on the scan engine
MaxResults == 3     \* entries of a result list handed to generateReport
MaxIterations == 2  \* iterations asked of benchmarkVideoFrame

(***************************************************************************)
(* Catalog (registerDefaultProviders), in registration order               *)
(***************************************************************************)
Catalog == <<"zxing", "barcode-detector", "zxing-wasm", "dynamsoft">>
CatalogKeys == {Catalog[i] : i \in 1..Len(Catalog)}
DefaultProvider == "zxing"

NULL == "<null>"
NoErr == "<none>"

(***************************************************************************)
(* Provider variants                                                       *)
(***************************************************************************)
NotInitError(k) ==
    CASE k = "zxing" -> "ZXing provider not initialized"
      [] k = "barcode-detector" -> "BarcodeDetector provider not initialized"
      [] k = "zxing-wasm" -> "ZXing-WASM not initialised"
      [] k = "dynamsoft" -> "Dynamsoft provider not initialised"

CtxError == "Cannot get canvas context"
BitmapError == "InvalidStateError"
EngineError == "engine unavailable"
TypeError == "TypeError"
IsNotInitError(e) == \E k \in CatalogKeys : e = NotInitError(k)

Throw(e) == [kind |-> "throw", val |-> e]
Value(v) == [kind |-> "value", val |-> v]

\* init(): which variants assign their engine handle before the first await.
InitIsSync(k) == k # "dynamsoft"
\* init(): can the engine set-up fail in this variant.
InitCanFail(k) == k # "zxing-wasm"
InitSucceeds(k, envOk) == envOk \/ ~InitCanFail(k)

\* Environment of one decode call: whether the video has dimensions, the
\* image argument is a canvas, a 2D context is available, what the engine
\* decodes (NULL, or a text) and whether the engine call itself rejects.
ScanEnvs == [dims : BOOLEAN, isCanvas : BOOLEAN, ctx : BOOLEAN,
             decoded : {NULL, "", "QR1"}, engineThrows : BOOLEAN]

\* What the engine yields inside the provider's try/catch: a rejected engine
\* call is "no code found".
Caught(env) == IF env.engineThrows THEN NULL ELSE env.decoded

ZXingScanVideoFrame(handle, env) ==
    IF ~handle THEN Throw(NotInitError("zxing"))
    ELSE IF ~env.dims THEN Value(NULL)
    ELSE IF ~env.ctx THEN Throw(CtxError)
    ELSE Value(Caught(env))

ZXingScanImage(handle, env) ==
    IF ~handle THEN Throw(NotInitError("zxing"))
    ELSE IF ~env.isCanvas /\ ~env.ctx THEN Value(NULL)
    ELSE Value(Caught(env))

DetectorScanVideoFrame(handle, env) ==
    IF ~handle THEN Throw(NotInitError("barcode-detector"))
    ELSE IF ~env.dims THEN Value(NULL)
    ELSE Value(Caught(env))

DetectorScanImage(handle, env) ==
    IF ~handle THEN Throw(NotInitError("barcode-detector"))
    ELSE Value(Caught(env))

WasmScanVideoFrame(handle, env) ==
    IF ~handle THEN Throw(NotInitError("zxing-wasm"))
    ELSE IF ~env.dims THEN Throw(BitmapError)
    ELSE Value(Caught(env))

\* A canvas argument's context is taken with a non-null assertion;
\* res[0]?.text || null : an empty text is reported as null.
WasmScanImage(handle, env) ==
    IF ~handle THEN Throw(NotInitError("zxing-wasm"))
    ELSE IF ~env.ctx THEN Throw(IF env.isCanvas THEN TypeError ELSE CtxError)
    ELSE Value(IF Caught(env) = "" THEN NULL ELSE Caught(env))

DynamsoftDecodeCanvas(handle, env) ==
    IF ~handle THEN Throw(NotInitError("dynamsoft"))
    ELSE IF env.engineThrows THEN Throw(EngineError)
    ELSE Value(env.decoded)

DynamsoftScanVideoFrame(handle, env) ==
    IF ~handle THEN Throw(NotInitError("dynamsoft"))
    ELSE IF ~env.dims THEN Value(NULL)
    ELSE IF ~env.ctx THEN Throw(CtxError)
    ELSE DynamsoftDecodeCanvas(handle, env)

\* The canvas for an image element is prepared before the reader is checked.
DynamsoftScanImage(handle, env) ==
    IF ~env.isCanvas /\ ~env.ctx THEN Throw(CtxError)
    ELSE DynamsoftDecodeCanvas(handle, env)

ScanVideoFrame(k, handle, env) ==
    CASE k = "zxing" -> ZXingScanVideoFrame(handle, env)
      [] k = "barcode-detector" -> DetectorScanVideoFrame(handle, env)
      [] k = "zxing-wasm" -> WasmScanVideoFrame(handle, env)
      [] k = "dynamsoft" -> DynamsoftScanVideoFrame(handle, env)

ScanImage(k, handle, env) ==
    CASE k = "zxing" -> ZXingScanImage(handle, env)
      [] k = "barcode-detector" -> DetectorScanImage(handle, env)
      [] k = "zxing-wasm" -> WasmScanImage(handle, env)
      [] k = "dynamsoft" -> DynamsoftScanImage(handle, env)

\* destroy() without the null guard: releasing a reader that is not there throws
DestroyUnguarded(k, handle) ==
    IF handle THEN [kind |-> "value", val |-> NULL, handle |-> FALSE]
    ELSE [kind |-> "throw", val |-> TypeError, handle |-> handle]

\* destroy(): every variant drops its engine handle; the Dynamsoft variant
\* first releases the reader through optional chaining (skipped on null).
Destroy(k, handle) == [kind |-> "value", val |-> NULL, handle |-> FALSE]

(***************************************************************************)
(* Provider contract: one stand-alone instance driven by arbitrary calls   *)
(***************************************************************************)
\* pv.destroys counts the destroy() calls made since the last successful
\* init(); pvOut.before is the handle the operation found.
NoOut == [op |-> "none", kind |-> "none", val |-> NoErr, before |-> FALSE]

PvInit(k) ==
    /\ pv = [name |-> k, handle |-> FALSE, destroys |-> 0, wasInit |-> FALSE, made |-> TRUE]
    /\ pvOut = NoOut

ProviderInit ==
    /\ pv.made
    /\ \E envOk \in BOOLEAN :
         IF InitSucceeds(pv.name, envOk)
         THEN /\ pv' = [pv EXCEPT !.handle = TRUE, !.destroys = 0, !.wasInit = TRUE]
              /\ pvOut' = [op |-> "init", kind |-> "value", val |-> NULL,
                           before |-> pv.handle]
         ELSE /\ pv' = pv
              /\ pvOut' = [op |-> "init", kind |-> "throw", val |-> EngineError,
                           before |-> pv.handle]
    /\ UNCHANGED <<regVars, scanVars, listeners, tasks, eventVars, session, app>>

ProviderScanVideoFrame ==
    /\ pv.made
    /\ \E env \in ScanEnvs :
         LET r == ScanVideoFrame(pv.name, pv.handle, env)
         IN pvOut' = [op |-> "scanVideoFrame", kind |-> r.kind, val |-> r.val,
                      before |-> pv.handle]
    /\ UNCHANGED <<pv, regVars, scanVars, listeners, tasks, eventVars, session, app>>

ProviderScanImage ==
    /\ pv.made
    /\ \E env \in ScanEnvs :
         LET r == ScanImage(pv.name, pv.handle, env)
         IN pvOut' = [op |-> "scanImage", kind |-> r.kind, val |-> r.val,
                      before |-> pv.handle]
    /\ UNCHANGED <<pv, regVars, scanVars, listeners, tasks, eventVars, session, app>>

ProviderDestroy ==
    /\ pv.made
    /\ pv.destroys < MaxDestroys
    /\ LET r == Destroy(pv.name, pv.handle)
       IN /\ pv' = [pv EXCEPT !.handle = r.handle, !.destroys = @ + 1]
          /\ pvOut' = [op |-> "destroy", kind |-> r.kind, val |-> r.val,
                       before |-> pv.handle]
    /\ UNCHANGED <<regVars, scanVars, listeners, tasks, eventVars, session, app>>

(***************************************************************************)
(* Calls in flight and the events of one step                              *)
(***************************************************************************)
\* Names the calls are made with: the default (synchronous init), a variant
\* whose init awaits its engine, and a name that is not in the catalog.
InputNames == {"zxing", "dynamsoft", "unknown"}
UnknownError(name) == "Unknown provider: " \o name
LoaderError == "Failed to fetch dynamically imported module"

\* idx, n, results and attempts are the locals of a benchmark run: the
\* catalog position of the provider under test, the iterations asked for,
\* the providerName of each result entry pushed so far (an entry is never
\* changed after its push, where `last` shows it in full) and the attempts of
\* the provider under test.
\* readFailed and writeFailed say whether the localStorage read and write of
\* a call made on the registry itself threw.
\* One call: op and pc say where it is suspended; name/prov/initOk/err/was are
\* its locals.  loaders, inits, gum and destroyCalls count the loader, init(),
\* getUserMedia and current-provider destroy() invocations it has made;
\* cur0..cached0 record what the call found when it was entered.
IdleTask == [op |-> "idle", pc |-> "idle", name |-> "", file |-> <<>>, prov |-> 0,
             initOk |-> FALSE, err |-> NoErr, was |-> FALSE, handleAt |-> FALSE,
             loaders |-> 0, inits |-> 0, gum |-> 0, destroyCalls |-> 0,
             cur0 |-> 0, handle0 |-> FALSE, stored0 |-> "", cached0 |-> 0,
             readFailed |-> FALSE, writeFailed |-> FALSE,
             idx |-> 0, n |-> 0, results |-> <<>>, attempts |-> <<>>]

NoGot == [kind |-> "none", val |-> NoErr]
NoLast == [op |-> "none", name |-> "", file |-> <<>>, kind |-> "none", ret |-> 0, err |-> NoErr,
           text |-> NULL, got |-> NoGot, was |-> FALSE, retHandle |-> FALSE, retDestroyed |-> FALSE, made |-> 0,
           loaders |-> 0, inits |-> 0, gum |-> 0, destroyCalls |-> 0,
           cur0 |-> 0, handle0 |-> FALSE, stored0 |-> "", cached0 |-> 0,
           readFailed |-> FALSE, writeFailed |-> FALSE,
           idx |-> 0, n |-> 0, results |-> <<>>, attempts |-> <<>>, entry |-> <<>>]
NoEmit == [event |-> "none", data |-> NoErr, called |-> <<>>]
NoIssue == [op |-> "none", prov |-> 0, handle |-> FALSE, destroyed |-> FALSE]

Busy == {t \in 1..MaxTasks : tasks[t].op # "idle"}
FreeSlot == CHOOSE t \in 1..MaxTasks :
               /\ tasks[t].op = "idle"
               /\ \A u \in 1..MaxTasks : tasks[u].op = "idle" => t <= u
CanStart(lim) == Cardinality(Busy) < lim

HandleOf(i) == IF i = 0 THEN FALSE ELSE inst[i].handle
DestroyedOf(i) == IF i = 0 THEN FALSE ELSE inst[i].destroyed
CachedOf(name) == IF name \in CatalogKeys THEN loaded[name] ELSE 0

Entered(op, name) ==
    [IdleTask EXCEPT !.op = op, !.name = name,
                     !.cur0 = regCurrent, !.handle0 = HandleOf(regCurrent),
                     !.stored0 = stored, !.cached0 = CachedOf(name)]

\* The settled call, as its caller sees it, with the returned instance's
\* state at the moment of settling.
Settled(rec, kind, ret, err, text, instances) ==
    [op |-> rec.op, name |-> rec.name, file |-> rec.file, kind |-> kind, ret |-> ret,
     err |-> err, text |-> text, got |-> NoGot, was |-> rec.was,
     retHandle |-> IF ret = 0 THEN FALSE ELSE instances[ret].handle,
     retDestroyed |-> IF ret = 0 THEN FALSE ELSE instances[ret].destroyed,
     made |-> IF rec.inits > 0 THEN rec.prov ELSE 0,
     loaders |-> rec.loaders, inits |-> rec.inits, gum |-> rec.gum,
     destroyCalls |-> rec.destroyCalls,
     cur0 |-> rec.cur0, handle0 |-> rec.handle0,
     stored0 |-> rec.stored0, cached0 |-> rec.cached0,
     readFailed |-> rec.readFailed, writeFailed |-> rec.writeFailed,
     idx |-> rec.idx, n |-> rec.n, results |-> rec.results,
     attempts |-> rec.attempts, entry |-> <<>>]

\* on(event, callback): the callback joins the end of its kind's list; a kind
\* without a list is ignored
On(ls, event, callback) ==
    IF event \in DOMAIN ls THEN [ls EXCEPT ![event] = Append(@, callback)] ELSE ls

Registered(ls) == Len(ls["success"]) + Len(ls["error"])

\* scanner.on(event, callback) with a callback not registered before
CallOn(lim) ==
    /\ CanStart(lim)
    /\ Registered(listeners) < MaxListeners
    /\ \E event \in {"success", "error", "other"} :
         listeners' = On(listeners, event, Registered(listeners) + 1)
    /\ call' = "on"
    /\ last' = NoLast /\ emitted' = NoEmit /\ issued' = NoIssue
    /\ UNCHANGED <<regVars, scanVars, tasks, pvVars, session, app>>

\* emit that calls the listeners of both kinds
EmitToAll(event, data) ==
    [event |-> event, data |-> data,
     called |-> listeners["success"] \o listeners["error"]]

\* emit that stops after the first listener
EmitToFirst(event, data) ==
    [event |-> event, data |-> data,
     called |-> IF listeners[event] = <<>> THEN <<>> ELSE <<Head(listeners[event])>>]

\* emit(event, data): listeners.forEach(callback => callback(data))
Emit(event, data) == [event |-> event, data |-> data, called |-> listeners[event]]

(***************************************************************************)
(* Provider registry                                                       *)
(***************************************************************************)
\* provider.destroy?.() on instance i
Destroyed(instances, i) ==
    [instances EXCEPT ![i].handle = Destroy(instances[i].name, instances[i].handle).handle,
                      ![i].destroyed = TRUE]

\* loadProvider that never consults the cache
LoadProviderCallUncached(cache, rec) ==
    IF rec.name \notin CatalogKeys
    THEN [rec EXCEPT !.pc = "ld_err", !.err = UnknownError(rec.name)]
    ELSE [rec EXCEPT !.pc = "ld_loader", !.loaders = @ + 1]

\* loadProvider up to its first await: cache hit, unknown name, or loader called
LoadProviderCall(cache, rec) ==
    IF rec.name \in CatalogKeys /\ cache[rec.name] # 0
    THEN [rec EXCEPT !.pc = "ld_ret", !.prov = cache[rec.name]]
    ELSE IF rec.name \notin CatalogKeys
    THEN [rec EXCEPT !.pc = "ld_err", !.err = UnknownError(rec.name)]
    ELSE [rec EXCEPT !.pc = "ld_loader", !.loaders = @ + 1]

\* getPreferredProvider without the fallback
GetPreferredProviderRaw(value, readThrows) == value

\* getPreferredProvider: localStorage value || 'zxing'; a throwing read gives 'zxing'
GetPreferredProvider(value, readThrows) ==
    IF readThrows \/ value = "" THEN DefaultProvider ELSE value

\* setCurrentProvider that leaves the previous provider alone
SetCurrentDestroysNothing(instances, cur) == [instances |-> instances, calls |-> 0]

\* setCurrentProvider up to its first await: destroy the current provider
\* (it stays in the cache), then enter loadProvider.
SetCurrentDestroys(instances, cur) ==
    IF cur # 0 THEN [instances |-> Destroyed(instances, cur), calls |-> 1]
    ELSE [instances |-> instances, calls |-> 0]

SetCurrentProviderCall(rec) ==
    LoadProviderCall(loaded,
        [rec EXCEPT !.destroyCalls = @ + SetCurrentDestroys(inst, regCurrent).calls])

CallGetAvailableProviders(lim) ==
    /\ CanStart(lim)
    /\ call' = "getAvailableProviders"
    /\ last' = [NoLast EXCEPT !.op = "getAvailableProviders", !.kind = "value",
                              !.cur0 = regCurrent, !.stored0 = stored]
    /\ emitted' = NoEmit /\ issued' = NoIssue
    /\ UNCHANGED <<regVars, scanVars, listeners, tasks, pvVars, session, app>>

\* registry.getPreferredProvider()
CallGetPreferredProvider(lim) ==
    /\ CanStart(lim)
    /\ call' = "getPreferred"
    /\ \E readThrows \in BOOLEAN :
         last' = [NoLast EXCEPT !.op = "getPreferred", !.kind = "value",
                                !.text = GetPreferredProvider(stored, readThrows),
                                !.readFailed = readThrows,
                                !.cur0 = regCurrent, !.stored0 = stored]
    /\ emitted' = NoEmit /\ issued' = NoIssue
    /\ UNCHANGED <<regVars, scanVars, listeners, tasks, pvVars, session, app>>

CallLoadProvider(lim) ==
    /\ CanStart(lim)
    /\ \E name \in InputNames :
         tasks' = [tasks EXCEPT ![FreeSlot] =
                      LoadProviderCall(loaded, Entered("load", name))]
    /\ call' = "load"
    /\ last' = NoLast /\ emitted' = NoEmit /\ issued' = NoIssue
    /\ UNCHANGED <<regVars, scanVars, listeners, pvVars, session, app>>

CallSetCurrentProvider(lim) ==
    /\ CanStart(lim)
    /\ inst' = SetCurrentDestroys(inst, regCurrent).instances
    /\ \E name \in InputNames :
         tasks' = [tasks EXCEPT ![FreeSlot] =
                      SetCurrentProviderCall(Entered("setCurrent", name))]
    /\ call' = "setCurrent"
    /\ last' = NoLast /\ emitted' = NoEmit /\ issued' = NoIssue
    /\ UNCHANGED <<loaded, regCurrent, stored, scanVars, listeners, pvVars, session, app>>

CallInitializeDefaultProvider(lim) ==
    /\ CanStart(lim)
    /\ inst' = SetCurrentDestroys(inst, regCurrent).instances
    /\ \E readThrows \in BOOLEAN :
         tasks' = [tasks EXCEPT ![FreeSlot] =
                      SetCurrentProviderCall(
                          [Entered("initDefault", GetPreferredProvider(stored, readThrows))
                              EXCEPT !.readFailed = readThrows])]
    /\ call' = "initDefault"
    /\ last' = NoLast /\ emitted' = NoEmit /\ issued' = NoIssue
    /\ UNCHANGED <<loaded, regCurrent, stored, scanVars, listeners, pvVars, session, app>>

\* `await providerInfo.loader()` settles; on success the class is constructed
\* and init() is entered (the synchronous variants set their handle here).
LoaderSettles(t) ==
    /\ tasks[t].pc = "ld_loader"
    /\ \E ok \in BOOLEAN, envOk \in BOOLEAN :
         IF ~ok
         THEN /\ tasks' = [tasks EXCEPT ![t].pc = "ld_err", ![t].err = LoaderError]
              /\ inst' = inst
         ELSE /\ Len(inst) < MaxInst
              /\ inst' = Append(inst,
                    [name |-> tasks[t].name,
                     handle |-> InitIsSync(tasks[t].name)
                                   /\ InitSucceeds(tasks[t].name, envOk),
                     destroyed |-> FALSE])
              /\ tasks' = [tasks EXCEPT ![t].pc = "ld_init",
                                        ![t].prov = Len(inst) + 1,
                                        ![t].inits = @ + 1,
                                        ![t].initOk = InitSucceeds(tasks[t].name, envOk)]
    /\ call' = "none" /\ last' = NoLast /\ emitted' = NoEmit /\ issued' = NoIssue
    /\ UNCHANGED <<loaded, regCurrent, stored, scanVars, listeners, pvVars, session, app>>

\* An instance whose init() rejected is referenced by nothing: it is dropped
\* from the table when it is the newest one and no cache entry holds it.
Unreferenced(instances, cache, i) ==
    IF i = Len(instances) /\ \A k \in CatalogKeys : cache[k] # i
    THEN SubSeq(instances, 1, i - 1) ELSE instances

\* loadProvider that caches the instance whether or not init() resolved
CacheBeforeInit(cache, name, prov, initOk) == [cache EXCEPT ![name] = prov]

\* loadProvider after `await provider.init()`: only a resolved init() reaches
\* `this.loadedProviders.set(providerName, provider)`
CacheAfterInit(cache, name, prov, initOk) ==
    IF initOk THEN [cache EXCEPT ![name] = prov] ELSE cache

\* `await provider.init()` settles; on success the instance is cached.
InitSettles(t) ==
    /\ tasks[t].pc = "ld_init"
    /\ loaded' = CacheAfterInit(loaded, tasks[t].name, tasks[t].prov, tasks[t].initOk)
    /\ IF tasks[t].initOk
       THEN /\ inst' = [inst EXCEPT ![tasks[t].prov].handle =
                           IF InitIsSync(tasks[t].name) THEN @ ELSE TRUE]
            /\ tasks' = [tasks EXCEPT ![t].pc = "ld_new"]
       ELSE /\ tasks' = [tasks EXCEPT ![t].pc = "ld_err", ![t].err = EngineError]
            /\ inst' = Unreferenced(inst, loaded', tasks[t].prov)
    /\ call' = "none" /\ last' = NoLast /\ emitted' = NoEmit /\ issued' = NoIssue
    /\ UNCHANGED <<regCurrent, stored, scanVars, listeners, pvVars, session, app>>

LoadSettled(t) == tasks[t].pc \in {"ld_ret", "ld_new", "ld_err"}

\* registry.loadProvider(name), called directly, settles
LoadProviderReturns(t) ==
    /\ tasks[t].op = "load"
    /\ LoadSettled(t)
    /\ last' = IF tasks[t].pc = "ld_err"
               THEN Settled(tasks[t], "throw", 0, tasks[t].err, NULL, inst)
               ELSE Settled(tasks[t], "value", tasks[t].prov, NoErr, NULL, inst)
    /\ tasks' = [tasks EXCEPT ![t] = IdleTask]
    /\ call' = "none" /\ emitted' = NoEmit /\ issued' = NoIssue
    /\ UNCHANGED <<regVars, scanVars, listeners, pvVars, session, app>>

\* setCurrentProvider that never saves the preference
SavePreferenceNever(value, name, writeThrows) == value

\* `try { localStorage.setItem(key, providerName) } catch { warn }`
SavePreference(value, name, writeThrows) == IF writeThrows THEN value ELSE name

\* The calls made on the registry itself
DirectCalls == {"setCurrent", "initDefault"}

\* setCurrentProvider after `await this.loadProvider(providerName)`: make the
\* loaded provider current and save the preference (a failing write is logged)
SetCurrentAfterLoad(t) ==
    /\ tasks[t].op \in {"setCurrent", "initDefault", "start", "setProvider", "scanImageFile"}
    /\ LoadSettled(t)
    /\ IF tasks[t].pc = "ld_err"
       THEN /\ tasks' = [tasks EXCEPT ![t].pc = "sc_err"]
            /\ UNCHANGED <<regCurrent, stored>>
       ELSE /\ regCurrent' = tasks[t].prov
            /\ \E writeThrows \in BOOLEAN :
                 /\ stored' = SavePreference(stored, tasks[t].name, writeThrows)
                 /\ tasks' = [tasks EXCEPT ![t].pc = "sc_ret",
                                           ![t].writeFailed =
                                               writeThrows /\ tasks[t].op \in DirectCalls]
    /\ call' = "none" /\ last' = NoLast /\ emitted' = NoEmit /\ issued' = NoIssue
    /\ UNCHANGED <<inst, loaded, scanVars, listeners, pvVars, session, app>>

\* registry.setCurrentProvider / initializeDefaultProvider, called directly, settles
SetCurrentProviderReturns(t) ==
    /\ tasks[t].op \in {"setCurrent", "initDefault"}
    /\ tasks[t].pc \in {"sc_ret", "sc_err"}
    /\ last' = IF tasks[t].pc = "sc_err"
               THEN Settled(tasks[t], "throw", 0, tasks[t].err, NULL, inst)
               ELSE Settled(tasks[t], "value", tasks[t].prov, NoErr, NULL, inst)
    /\ tasks' = [tasks EXCEPT ![t] = IdleTask]
    /\ call' = "none" /\ emitted' = NoEmit /\ issued' = NoIssue
    /\ UNCHANGED <<regVars, scanVars, listeners, pvVars, session, app>>

\* cleanup(): destroy the current provider, then every cached one, clear the cache
RECURSIVE DestroyAll(_, _, _)
DestroyAll(instances, cache, idx) ==
    IF idx > Len(Catalog) THEN instances
    ELSE LET i == cache[Catalog[idx]]
         IN DestroyAll(IF i = 0 THEN instances ELSE Destroyed(instances, i),
                       cache, idx + 1)

\* cleanup that destroys the current provider only
CleanedUpCurrentOnly == IF regCurrent # 0 THEN Destroyed(inst, regCurrent) ELSE inst

CleanedUp == DestroyAll(IF regCurrent # 0 THEN Destroyed(inst, regCurrent) ELSE inst,
                        loaded, 1)

RegistryCleanup ==
    /\ inst' = CleanedUp
    /\ regCurrent' = 0
    /\ loaded' = [k \in CatalogKeys |-> 0]

CallCleanup(lim) ==
    /\ CanStart(lim)
    /\ RegistryCleanup
    /\ call' = "cleanup"
    /\ last' = Settled(Entered("cleanup", ""), "value", 0, NoErr, NULL, inst)
    /\ emitted' = NoEmit /\ issued' = NoIssue
    /\ UNCHANGED <<stored, scanVars, listeners, tasks, pvVars, session, app>>

(***************************************************************************)
(* Scan engine                                                             *)
(***************************************************************************)
InvalidFileError == "Please select a valid image file."
NoBarcodeError == "No barcode found in the image. Please try another image."
ReadError == "Failed to read file."
ImageLoadError == "Failed to load image. Please try another file."
ThumbnailError == "Cannot create thumbnail"
NoProviderError == "No provider initialized"
CameraErrors == {"NotAllowedError", "NotFoundError"}
PreviewError == "preview failed"

\* JavaScript truthiness of a decode result (`if (result)`, `!result`)
Truthy(v) == v # NULL /\ v # ""

RemoveAt(seq, i) == SubSeq(seq, 1, i - 1) \o SubSeq(seq, i + 1, Len(seq))

\* The loop activations form a bag; it is kept as a sequence in a fixed order.
LoopRank(l) == IF l.st = "timer" THEN 0 ELSE 2 * l.prov + (IF l.handle THEN 1 ELSE 0)
RECURSIVE InsertLoop(_, _)
InsertLoop(seq, l) ==
    IF seq = <<>> THEN <<l>>
    ELSE IF LoopRank(l) <= LoopRank(Head(seq)) THEN <<l>> \o seq
    ELSE <<Head(seq)>> \o InsertLoop(Tail(seq), l)

Issue(op, i) == [op |-> op, prov |-> i, handle |-> inst[i].handle,
                 destroyed |-> inst[i].destroyed]

\* start() without the already-running check
AlreadyScanningIgnored(flag) == FALSE

\* start(): `if (this.isScanning) return`
AlreadyScanning(flag) == flag

\* start() from `getUserMedia(constraints)` on: the camera request is made
RequestCamera(rec) == [rec EXCEPT !.pc = "gum", !.gum = @ + 1]

\* start() rejects: the catch block emits 'error' and rethrows
StartFails(t, e) ==
    /\ emitted' = Emit("error", e)
    /\ last' = Settled(tasks[t], "throw", 0, e, NULL, inst)
    /\ tasks' = [tasks EXCEPT ![t] = IdleTask]

\* stop() that clears the flag and detaches the preview but keeps the stream
StoppedKeepsStream == /\ isScanning' = FALSE
                      /\ stream' = stream
                      /\ srcObject' = FALSE

\* stop(): clear the flag, stop the tracks of the held stream, detach it
Stopped == /\ isScanning' = FALSE
           /\ stream' = FALSE
           /\ srcObject' = FALSE

\* A decode call on an instance without its engine handle rejects before its
\* first await, whatever the frame: the caller resumes without yielding to
\* another handler
RejectsAtOnce(cur) ==
    \A env \in ScanEnvs :
        LET r == ScanVideoFrame(inst[cur].name, inst[cur].handle, env)
        IN r.kind = "throw" /\ IsNotInitError(r.val)

\* startScanningLoop() entered while scanning with provider cur: scanFrame()
\* issues one decode call; without a provider, or when the call rejects at
\* once, the error is swallowed and the timer is set
LoopEntered(cur) ==
    IF cur = 0 \/ RejectsAtOnce(cur) THEN [st |-> "timer", prov |-> 0, handle |-> FALSE]
    ELSE [st |-> "scan", prov |-> cur, handle |-> inst[cur].handle]

LoopIssue(cur) == IF cur = 0 THEN NoIssue ELSE Issue("scanVideoFrame", cur)

\* Bookkeeping of one scanning session (kept only when session.on): the
\* scanVideoFrame calls the loop has made, how they settled (null, a throw, a
\* non-null text), the texts that produced no event (empty, or the snapshot
\* could not be taken), the 'success' events emitted, the first non-null
\* text returned and the text the event carried.
NoSession == [on |-> FALSE, calls |-> 0, nulls |-> 0, throws |-> 0, texts |-> 0,
              dropped |-> 0, successes |-> 0, got |-> NULL, sent |-> NULL]

SessionRoom(s) == s.on => s.calls < MaxFrames

\* scanFrame() calls this.currentProvider.scanVideoFrame(...)
SessionIssued(s, cur) ==
    IF ~s.on \/ cur = 0 THEN s
    ELSE IF RejectsAtOnce(cur) THEN [s EXCEPT !.calls = @ + 1, !.throws = @ + 1]
    ELSE [s EXCEPT !.calls = @ + 1]

\* a loop that reports every settled decode, null included
FrameSucceedsOnAny(r, ctx) == r.kind = "value" /\ ctx

\* a loop whose catch block ends the iteration like a result
FrameSucceedsOrThrows(r, ctx) ==
    r.kind = "throw" \/ (r.kind = "value" /\ Truthy(r.val) /\ ctx)

\* startScanningLoop() after `await this.scanFrame()`: r is what the decode
\* call settled with, ctx whether captureFrame() gets its 2D context
FrameSucceeds(r, ctx) == r.kind = "value" /\ Truthy(r.val) /\ ctx

SessionSettled(s, r, ctx) ==
    IF ~s.on THEN s
    ELSE IF r.kind = "throw" THEN [s EXCEPT !.throws = @ + 1]
    ELSE IF r.val = NULL THEN [s EXCEPT !.nulls = @ + 1]
    ELSE LET t == [s EXCEPT !.texts = @ + 1,
                            !.got = IF s.texts = 0 THEN r.val ELSE @]
         IN IF FrameSucceeds(r, ctx)
            THEN [t EXCEPT !.successes = @ + 1,
                           !.sent = IF s.successes = 0 THEN r.val ELSE @]
            ELSE [t EXCEPT !.dropped = @ + 1]

\* a loop that does not look at the flag
LoopNeverHalted(flag) == FALSE

\* startScanningLoop(): `if (!this.isScanning) return`
LoopHalted(flag) == ~flag

\* start() up to its first await
StartEntered(lim) ==
    /\ CanStart(lim)
    /\ call' = "start"
    /\ issued' = NoIssue /\ emitted' = NoEmit
    /\ IF AlreadyScanning(isScanning)
       THEN /\ last' = Settled(Entered("start", ""), "value", 0, NoErr, NULL, inst)
            /\ UNCHANGED <<regVars, scanVars, tasks>>
       ELSE IF scCurrent = 0
       THEN /\ inst' = SetCurrentDestroys(inst, regCurrent).instances
            /\ \E readThrows \in BOOLEAN :
                 tasks' = [tasks EXCEPT ![FreeSlot] =
                    SetCurrentProviderCall(
                        Entered("start", GetPreferredProvider(stored, readThrows)))]
            /\ last' = NoLast
            /\ UNCHANGED <<loaded, regCurrent, stored, scanVars>>
       ELSE /\ tasks' = [tasks EXCEPT ![FreeSlot] = RequestCamera(Entered("start", ""))]
            /\ last' = NoLast
            /\ UNCHANGED <<regVars, scanVars>>
    /\ UNCHANGED <<listeners, pvVars, session>>

CallStart(lim) == StartEntered(lim) /\ UNCHANGED app

\* start() after `await this.providerRegistry.initializeDefaultProvider()`
StartProviderSettled(t) ==
    /\ tasks[t].op = "start"
    /\ tasks[t].pc \in {"sc_ret", "sc_err"}
    /\ call' = "none" /\ issued' = NoIssue
    /\ IF tasks[t].pc = "sc_err"
       THEN /\ StartFails(t, tasks[t].err)
            /\ UNCHANGED scCurrent
       ELSE /\ scCurrent' = tasks[t].prov
            /\ tasks' = [tasks EXCEPT ![t] = RequestCamera(tasks[t])]
            /\ last' = NoLast /\ emitted' = NoEmit
    /\ UNCHANGED <<regVars, isScanning, stream, srcObject, leaked, onloaded, loops,
                   listeners, pvVars, session>>

StartAfterInitializeDefault(t) == StartProviderSettled(t) /\ UNCHANGED app

\* `await navigator.mediaDevices.getUserMedia(constraints)` settles; the stream
\* is stored, attached to the preview and the metadata handlers are installed
CameraSettled(t, maxLeaked) ==
    /\ tasks[t].pc = "gum"
    /\ call' = "none" /\ issued' = NoIssue
    /\ \E ok \in BOOLEAN :
         IF ~ok
         THEN /\ \E e \in CameraErrors : StartFails(t, e)
              /\ UNCHANGED <<stream, srcObject, leaked, onloaded>>
         ELSE /\ stream => leaked < maxLeaked
              /\ leaked' = IF stream THEN leaked + 1 ELSE leaked
              /\ stream' = TRUE
              /\ srcObject' = TRUE
              /\ onloaded' = t
              /\ tasks' = [tasks EXCEPT ![t].pc = "meta"]
              /\ last' = NoLast /\ emitted' = NoEmit
    /\ UNCHANGED <<regVars, scCurrent, isScanning, loops, listeners, pvVars, session>>

CameraSettles(t, maxLeaked) == CameraSettled(t, maxLeaked) /\ UNCHANGED app

\* The preview becomes ready (onloadedmetadata, then play() resolves) or fails
\* (onerror, play() rejects); on success the flag is set and the loop entered
PreviewSettled(t, maxLoops) ==
    /\ tasks[t].pc = "meta"
    /\ onloaded = t
    /\ call' = "none"
    /\ \E ok \in BOOLEAN :
         IF ~ok
         THEN /\ StartFails(t, PreviewError)
              /\ issued' = NoIssue
              /\ UNCHANGED <<isScanning, loops, session>>
         ELSE /\ srcObject
              /\ Len(loops) < maxLoops
              /\ SessionRoom(session)
              /\ isScanning' = TRUE
              /\ loops' = InsertLoop(loops, LoopEntered(scCurrent))
              /\ issued' = LoopIssue(scCurrent)
              /\ session' = SessionIssued(session, scCurrent)
              /\ last' = Settled(tasks[t], "value", 0, NoErr, NULL, inst)
              /\ tasks' = [tasks EXCEPT ![t] = IdleTask]
              /\ emitted' = NoEmit
    /\ onloaded' = 0
    /\ UNCHANGED <<regVars, scCurrent, stream, srcObject, leaked, listeners, pvVars>>

PreviewSettles(t, maxLoops) == PreviewSettled(t, maxLoops) /\ UNCHANGED app

\* stop()
StopCalled(lim) ==
    /\ CanStart(lim)
    /\ call' = "stop"
    /\ Stopped
    /\ last' = Settled(Entered("stop", ""), "value", 0, NoErr, NULL, inst)
    /\ emitted' = NoEmit /\ issued' = NoIssue
    /\ UNCHANGED <<regVars, scCurrent, leaked, onloaded, loops, listeners, tasks, pvVars, session>>

CallStop(lim) == StopCalled(lim) /\ UNCHANGED app

\* The decode call of one loop activation settles: a truthy text is captured
\* and emitted as 'success' and the activation ends; null, a throwing decode
\* or a throwing captureFrame() leave it waiting for the 100 ms timer
\* (envs: the frames and canvases the decode may meet; stops: the 'success'
\* listener is the application's, which calls stop())
FrameSettlesIn(i, envs, stops) ==
    /\ i <= Len(loops)
    /\ loops[i].st = "scan"
    /\ call' = "none" /\ issued' = NoIssue
    /\ \E o \in {[r |-> ScanVideoFrame(inst[loops[i].prov].name, loops[i].handle, env),
                   ctx |-> env.ctx] : env \in envs} :
         /\ last' = [NoLast EXCEPT !.op = "scanFrame", !.got.kind = o.r.kind,
                                   !.kind = IF FrameSucceeds(o.r, o.ctx)
                                            THEN "value" ELSE "retry"]
         /\ session' = SessionSettled(session, o.r, o.ctx)
         /\ IF FrameSucceeds(o.r, o.ctx)
            THEN /\ emitted' = Emit("success", o.r.val)
                 /\ loops' = RemoveAt(loops, i)
                 /\ IF stops THEN Stopped
                    ELSE UNCHANGED <<isScanning, stream, srcObject>>
            ELSE /\ emitted' = NoEmit
                 /\ loops' = InsertLoop(RemoveAt(loops, i),
                                        [st |-> "timer", prov |-> 0, handle |-> FALSE])
                 /\ UNCHANGED <<isScanning, stream, srcObject>>
    /\ UNCHANGED <<regVars, scCurrent, leaked, onloaded, listeners, tasks, pvVars>>

FrameScanSettles(i) == FrameSettlesIn(i, ScanEnvs, FALSE) /\ UNCHANGED app

\* setTimeout(() => this.startScanningLoop(), 100) fires
LoopTimerFires(i) ==
    /\ i <= Len(loops)
    /\ loops[i].st = "timer"
    /\ call' = "none" /\ last' = NoLast /\ emitted' = NoEmit
    /\ IF LoopHalted(isScanning)
       THEN /\ loops' = RemoveAt(loops, i)
            /\ issued' = NoIssue
            /\ UNCHANGED session
       ELSE /\ SessionRoom(session)
            /\ loops' = InsertLoop(RemoveAt(loops, i), LoopEntered(scCurrent))
            /\ issued' = LoopIssue(scCurrent)
            /\ session' = SessionIssued(session, scCurrent)
    /\ UNCHANGED <<regVars, scCurrent, isScanning, stream, srcObject, leaked, onloaded,
                   listeners, tasks, pvVars, app>>

\* setProvider(name): `if (wasScanning) this.stop()`
StopsFirst(wasScanning) == wasScanning

\* setProvider(name): stop if scanning, then enter setCurrentProvider
SetProviderEntered(lim, name) ==
    /\ CanStart(lim)
    /\ call' = "setProvider"
    /\ IF StopsFirst(isScanning) THEN Stopped ELSE UNCHANGED <<isScanning, stream, srcObject>>
    /\ inst' = SetCurrentDestroys(inst, regCurrent).instances
    /\ tasks' = [tasks EXCEPT ![FreeSlot] =
          SetCurrentProviderCall([Entered("setProvider", name) EXCEPT !.was = isScanning])]
    /\ last' = NoLast /\ emitted' = NoEmit /\ issued' = NoIssue
    /\ UNCHANGED <<loaded, regCurrent, stored, scCurrent, leaked, onloaded, loops,
                   listeners, pvVars, session>>

CallSetProvider(lim) ==
    \E name \in InputNames : SetProviderEntered(lim, name) /\ UNCHANGED app

\* setProvider after `await this.providerRegistry.setCurrentProvider(name)`:
\* adopt the provider and, if scanning had been active, enter start()
SetProviderAfterSetCurrent(t) ==
    /\ tasks[t].op = "setProvider"
    /\ tasks[t].pc \in {"sc_ret", "sc_err"}
    /\ call' = "none" /\ emitted' = NoEmit /\ issued' = NoIssue
    /\ IF tasks[t].pc = "sc_err"
       THEN /\ last' = Settled(tasks[t], "throw", 0, tasks[t].err, NULL, inst)
            /\ tasks' = [tasks EXCEPT ![t] = IdleTask]
            /\ UNCHANGED scCurrent
       ELSE /\ scCurrent' = tasks[t].prov
            /\ IF tasks[t].was /\ ~AlreadyScanning(isScanning)
               THEN /\ tasks' = [tasks EXCEPT ![t] = RequestCamera(tasks[t])]
                    /\ last' = NoLast
               ELSE /\ last' = Settled(tasks[t], "value", 0, NoErr, NULL, inst)
                    /\ tasks' = [tasks EXCEPT ![t] = IdleTask]
    /\ UNCHANGED <<regVars, isScanning, stream, srcObject, leaked, onloaded, loops,
                   listeners, pvVars, session, app>>

\* file.type of the files handed to scanImageFile, cut after the first '/':
\* "image/png", "text/plain", "image", ""
FileTypes == {<<"image/", "png">>, <<"text/", "plain">>, <<"image">>, <<>>}

\* scanImageFile without the type check
AnyTypeIsImage(ty) == TRUE

\* `file.type.startsWith('image/')`
IsImageType(ty) == Len(ty) > 0 /\ ty[1] = "image/"

\* scanImageFile(file) up to the FileReader: type check, canvas context
CallScanImageFile(lim) ==
    /\ CanStart(lim)
    /\ call' = "scanImageFile"
    /\ emitted' = NoEmit /\ issued' = NoIssue
    /\ \E ty \in FileTypes, ctx \in BOOLEAN :
         LET rec == [Entered("scanImageFile", "") EXCEPT !.file = ty]
         IN IF ~IsImageType(ty)
            THEN /\ last' = Settled(rec, "throw", 0, InvalidFileError, NULL, inst)
                 /\ UNCHANGED tasks
            ELSE IF ~ctx
            THEN /\ last' = Settled(rec, "throw", 0, CtxError, NULL, inst)
                 /\ UNCHANGED tasks
            ELSE /\ tasks' = [tasks EXCEPT ![FreeSlot] = [rec EXCEPT !.pc = "read"]]
                 /\ last' = NoLast
    /\ UNCHANGED <<regVars, scanVars, listeners, pvVars, session, app>>

\* reader.onload sets img.src, reader.onerror rejects
FileReadSettles(t) ==
    /\ tasks[t].pc = "read"
    /\ call' = "none" /\ emitted' = NoEmit /\ issued' = NoIssue
    /\ \E ok \in BOOLEAN :
         IF ok
         THEN /\ tasks' = [tasks EXCEPT ![t].pc = "img"]
              /\ last' = NoLast
         ELSE /\ last' = Settled(tasks[t], "throw", 0, ReadError, NULL, inst)
              /\ tasks' = [tasks EXCEPT ![t] = IdleTask]
    /\ UNCHANGED <<regVars, scanVars, listeners, pvVars, session, app>>

\* The decode call on the image is issued on provider cur
ScanImageIssued(rec, cur) ==
    [rec EXCEPT !.pc = "scimg", !.prov = cur, !.handleAt = inst[cur].handle]

\* img.onerror rejects; img.onload initializes the default provider if the
\* engine has none, else issues the decode call
ImageSettles(t) ==
    /\ tasks[t].pc = "img"
    /\ call' = "none" /\ emitted' = NoEmit
    /\ \E ok \in BOOLEAN :
         IF ~ok
         THEN /\ last' = Settled(tasks[t], "throw", 0, ImageLoadError, NULL, inst)
              /\ tasks' = [tasks EXCEPT ![t] = IdleTask]
              /\ issued' = NoIssue
              /\ UNCHANGED inst
         ELSE IF scCurrent = 0
         THEN /\ inst' = SetCurrentDestroys(inst, regCurrent).instances
              /\ \E readThrows \in BOOLEAN :
                   tasks' = [tasks EXCEPT ![t] =
                      SetCurrentProviderCall(
                         [tasks[t] EXCEPT !.name = GetPreferredProvider(stored, readThrows)])]
              /\ last' = NoLast /\ issued' = NoIssue
         ELSE /\ tasks' = [tasks EXCEPT ![t] = ScanImageIssued(tasks[t], scCurrent)]
              /\ issued' = Issue("scanImage", scCurrent)
              /\ last' = NoLast
              /\ UNCHANGED inst
    /\ UNCHANGED <<loaded, regCurrent, stored, scanVars, listeners, pvVars, session, app>>

\* img.onload after `await this.providerRegistry.initializeDefaultProvider()`;
\* every error inside the handler is reported as 'no barcode found'
ScanImageAfterInitializeDefault(t) ==
    /\ tasks[t].op = "scanImageFile"
    /\ tasks[t].pc \in {"sc_ret", "sc_err"}
    /\ call' = "none" /\ emitted' = NoEmit
    /\ IF tasks[t].pc = "sc_err"
       THEN /\ last' = [Settled(tasks[t], "throw", 0, NoBarcodeError, NULL, inst)
                        EXCEPT !.got = Throw(tasks[t].err)]
            /\ tasks' = [tasks EXCEPT ![t] = IdleTask]
            /\ issued' = NoIssue
            /\ UNCHANGED scCurrent
       ELSE /\ scCurrent' = tasks[t].prov
            /\ tasks' = [tasks EXCEPT ![t] = ScanImageIssued(tasks[t], tasks[t].prov)]
            /\ issued' = Issue("scanImage", tasks[t].prov)
            /\ last' = NoLast
    /\ UNCHANGED <<regVars, isScanning, stream, srcObject, leaked, onloaded, loops,
                   listeners, pvVars, session, app>>

\* scanImageFile without the `if (!result)` check
ScanImageFileOutcomeUnchecked(r, thumbCtx) ==
    IF r.kind = "throw" THEN Throw(NoBarcodeError)
    ELSE IF ~thumbCtx THEN Throw(ThumbnailError)
    ELSE Value(r.val)

\* What scanImageFile settles with once the provider's scanImage has settled
ScanImageFileOutcome(r, thumbCtx) ==
    IF r.kind = "throw" \/ ~Truthy(r.val) THEN Throw(NoBarcodeError)
    ELSE IF ~thumbCtx THEN Throw(ThumbnailError)
    ELSE Value(r.val)

\* `await this.currentProvider.scanImage(img)` settles
ScanImageSettles(t) ==
    /\ tasks[t].pc = "scimg"
    /\ call' = "none" /\ emitted' = NoEmit /\ issued' = NoIssue
    /\ \E o \in {[r |-> ScanImage(inst[tasks[t].prov].name, tasks[t].handleAt, env),
                   thumbCtx |-> thumbCtx] :
                  env \in {e \in ScanEnvs : ~e.isCanvas}, thumbCtx \in BOOLEAN} :
         LET out == ScanImageFileOutcome(o.r, o.thumbCtx)
         IN last' = [(IF out.kind = "throw"
                      THEN Settled(tasks[t], "throw", 0, out.val, NULL, inst)
                      ELSE Settled(tasks[t], "value", 0, NoErr, out.val, inst))
                     EXCEPT !.got = o.r]
    /\ tasks' = [tasks EXCEPT ![t] = IdleTask]
    /\ UNCHANGED <<regVars, scanVars, listeners, pvVars, session, app>>

\* BarcodeScanner.cleanup(): stop(), then providerRegistry.cleanup()
CallScannerCleanup(lim) ==
    /\ CanStart(lim)
    /\ call' = "scannerCleanup"
    /\ Stopped
    /\ RegistryCleanup
    /\ last' = Settled(Entered("scannerCleanup", ""), "value", 0, NoErr, NULL, inst)
    /\ emitted' = NoEmit /\ issued' = NoIssue
    /\ UNCHANGED <<stored, scCurrent, leaked, onloaded, loops, listeners, tasks, pvVars, session, app>>

(***************************************************************************)
(* Specifications                                                          *)
(***************************************************************************)
NoProvider == [name |-> "", handle |-> FALSE, destroys |-> 0, wasInit |-> FALSE,
               made |-> FALSE]

\* The application registers one success and one error listener; a second
\* error listener stands for a further subscriber.
Subscribed == [success |-> <<1>>, error |-> <<2, 3>>]

\* The application before any of its handlers ran: the image input holds no
\* selection, nothing has been formatted, the provider selector is not filled
\* (started, select) and no decoded result is shown
NoFormat == [name |-> "", message |-> "", out |-> ""]
NoBench == [results |-> <<>>, summary |-> <<>>]
NoApp == [value |-> "", files |-> FALSE, format |-> NoFormat, bench |-> NoBench,
          started |-> FALSE, select |-> "", decoded |-> FALSE, page |-> "landing"]

\* After construction: empty cache, no current provider, nothing scanning
Constructed ==
    /\ inst = <<>>
    /\ loaded = [k \in CatalogKeys |-> 0]
    /\ regCurrent = 0
    /\ scCurrent = 0
    /\ isScanning = FALSE
    /\ stream = FALSE
    /\ srcObject = FALSE
    /\ leaked = 0
    /\ onloaded = 0
    /\ loops = <<>>
    /\ tasks = [t \in 1..MaxTasks |-> IdleTask]
    /\ call = "none"
    /\ last = NoLast
    /\ emitted = NoEmit
    /\ issued = NoIssue

InitRegistry ==
    /\ Constructed
    /\ stored \in {""} \cup InputNames
    /\ listeners = Subscribed
    /\ pv = NoProvider
    /\ pvOut = NoOut
    /\ session = NoSession
    /\ app = NoApp

Init ==
    /\ Constructed
    /\ stored \in {"", "dynamsoft"}
    /\ listeners = Subscribed
    /\ pv = NoProvider
    /\ pvOut = NoOut
    /\ session = NoSession
    /\ app = NoApp

EngineStep(t) ==
    \/ LoaderSettles(t)
    \/ InitSettles(t)
    \/ SetCurrentAfterLoad(t)
    \/ StartAfterInitializeDefault(t)
    \/ CameraSettles(t, MaxLeaked)
    \/ PreviewSettles(t, MaxLoops)
    \/ SetProviderAfterSetCurrent(t)
    \/ FileReadSettles(t)
    \/ ImageSettles(t)
    \/ ScanImageAfterInitializeDefault(t)
    \/ ScanImageSettles(t)

LoopStep(i) ==
    \/ FrameScanSettles(i)
    \/ LoopTimerFires(i)

\* Calls on the scan engine that do not overlap, with the sampling loop
\* running between and during them
Next ==
    \/ CallStart(1)
    \/ CallStop(1)
    \/ CallSetProvider(1)
    \/ CallScanImageFile(1)
    \/ CallScannerCleanup(1)
    \/ \E t \in 1..MaxTasks : EngineStep(t)
    \/ \E i \in 1..MaxLoops : LoopStep(i)

Spec == Init /\ [][Next]_vars

RegistryStep(t) ==
    \/ LoaderSettles(t)
    \/ InitSettles(t)
    \/ LoadProviderReturns(t)
    \/ SetCurrentAfterLoad(t)
    \/ SetCurrentProviderReturns(t)

\* Calls on the registry that do not overlap
NextRegistry ==
    \/ CallGetAvailableProviders(1)
    \/ CallGetPreferredProvider(1)
    \/ CallLoadProvider(1)
    \/ CallSetCurrentProvider(1)
    \/ CallInitializeDefaultProvider(1)
    \/ CallCleanup(1)
    \/ \E t \in 1..MaxTasks : RegistryStep(t)

SpecRegistry == InitRegistry /\ [][NextRegistry]_vars

\* loadProvider calls that may overlap: a second one is made while the first
\* awaits its loader or init()
OverlapStep(t) ==
    \/ LoaderSettles(t)
    \/ InitSettles(t)
    \/ LoadProviderReturns(t)

NextOverlap ==
    \/ CallLoadProvider(MaxTasks)
    \/ CallCleanup(1)
    \/ \E t \in 1..MaxTasks : OverlapStep(t)

SpecOverlap == InitRegistry /\ [][NextOverlap]_vars

\* The options of the provider selector that the calls are made with
SelectNames == InputNames \cap CatalogKeys

\* handleProviderChange(event): the selector holds the chosen name and
\* scanner.setProvider(name) is entered
CallHandleProviderChange(lim) ==
    \E name \in SelectNames :
       /\ SetProviderEntered(lim, name)
       /\ app' = [app EXCEPT !.select = name]

SwitchStep(t) ==
    \/ LoaderSettles(t)
    \/ InitSettles(t)
    \/ SetCurrentAfterLoad(t)
    \/ SetProviderAfterSetCurrent(t)

\* Provider changes that may overlap: the selector changes again while the
\* previous setProvider awaits the load
NextSwitch ==
    \/ CallHandleProviderChange(MaxTasks)
    \/ \E t \in 1..MaxTasks : SwitchStep(t)

InitSwitch ==
    /\ Constructed
    /\ stored = ""
    /\ listeners = Subscribed
    /\ pv = NoProvider
    /\ pvOut = NoOut
    /\ session = NoSession
    /\ app = NoApp

SpecSwitch == InitSwitch /\ [][NextSwitch]_vars

\* initializeProviderSelector(), called by the constructor while the engine
\* has no provider: the selector takes providers[0] and
\* scanner.setProvider(providers[0].name) is entered
CallInitializeProviderSelector(lim) ==
    /\ ~app.started
    /\ scCurrent = 0
    /\ SetProviderEntered(lim, Catalog[1])
    /\ app' = [app EXCEPT !.started = TRUE, !.select = Catalog[1]]

\* startScanning(), from the open-camera button of the landing page: the
\* scanner page is shown and scanner.start() is entered (the user opens the
\* camera once the selector has been filled)
AppStartScanning(lim) ==
    /\ app.started
    /\ \A t \in 1..MaxTasks : tasks[t].op # "setProvider"
    /\ app.page = "landing"
    /\ StartEntered(lim)
    /\ app' = [app EXCEPT !.page = "scanner", !.decoded = FALSE]

\* stopScanning(), from the stop button of the scanner page or the scan-again
\* button of the result page: scanner.stop(), then the landing page
AppStopScanning(lim) ==
    /\ app.page \in {"scanner", "result"}
    /\ StopCalled(lim)
    /\ app' = [app EXCEPT !.page = "landing"]

\* startScanning() after `await this.scanner.start()`: a rejected start()
\* shows the error and the landing page
AppStartSettles(t) ==
    /\ \/ StartProviderSettled(t)
       \/ CameraSettled(t, MaxLeaked)
       \/ PreviewSettled(t, MaxLoops)
    /\ app' = IF last'.op = "start" /\ last'.kind = "throw"
              THEN [app EXCEPT !.page = "landing"]
              ELSE app

\* A decode call of the loop settles under the application's listeners:
\* handleScanSuccess(result) calls scanner.stop() and shows the result page
FrameScanHandled(i) ==
    /\ FrameSettlesIn(i, ScanEnvs, TRUE)
    /\ app' = IF emitted'.event = "success"
              THEN [app EXCEPT !.decoded = TRUE, !.page = "result"]
              ELSE app

AppStep(t) ==
    \/ LoaderSettles(t)
    \/ InitSettles(t)
    \/ SetCurrentAfterLoad(t)
    \/ SetProviderAfterSetCurrent(t)
    \/ AppStartSettles(t)

\* The application: the constructor fills the provider selector, then the
\* user opens and closes the camera; the stop button is there while start()
\* is still awaiting, so a second start() may overlap the first
NextApp ==
    \/ CallInitializeProviderSelector(MaxTasks)
    \/ AppStartScanning(MaxTasks)
    \/ AppStopScanning(MaxTasks + 1)
    \/ \E t \in 1..MaxTasks : AppStep(t)
    \/ \E i \in 1..MaxLoops : FrameScanHandled(i) \/ LoopTimerFires(i)

InitApp ==
    /\ Constructed
    /\ stored \in {"", "zxing", "dynamsoft"}
    /\ listeners = Subscribed
    /\ pv = NoProvider
    /\ pvOut = NoOut
    /\ session = NoSession
    /\ app = NoApp

SpecApp == InitApp /\ [][NextApp]_vars

\* Frames that show a code every engine decodes: the video has dimensions,
\* the 2D context is there and the engine call returns the text
ClearEnvs == {env \in ScanEnvs : /\ env.dims /\ env.isCanvas /\ env.ctx
                                 /\ env.decoded = "QR1" /\ ~env.engineThrows}

ClearFrameSettles(i) == FrameSettlesIn(i, ClearEnvs, FALSE) /\ UNCHANGED app

\* The provider is switched while the camera is closed
SwitchWhileIdle == ~isScanning /\ CallHandleProviderChange(1)

\* The camera is opened once and never closed
StartOnce == ~isScanning /\ CallStart(1)

LiveStep(t) ==
    \/ LoaderSettles(t)
    \/ InitSettles(t)
    \/ SetCurrentAfterLoad(t)
    \/ SetProviderAfterSetCurrent(t)
    \/ StartAfterInitializeDefault(t)
    \/ CameraSettles(t, MaxLeaked)
    \/ PreviewSettles(t, MaxLoops)

NextLive ==
    \/ SwitchWhileIdle
    \/ StartOnce
    \/ \E t \in 1..MaxTasks : LiveStep(t)
    \/ \E i \in 1..MaxLoops : ClearFrameSettles(i) \/ LoopTimerFires(i)

\* Every awaited call settles and every timer fires
LiveFairness ==
    /\ \A t \in 1..MaxTasks : WF_vars(LiveStep(t))
    /\ \A i \in 1..MaxLoops : WF_vars(ClearFrameSettles(i)) /\ WF_vars(LoopTimerFires(i))

SpecLive == InitSwitch /\ [][NextLive]_vars /\ LiveFairness

InitProvider ==
    /\ Constructed
    /\ stored = ""
    /\ listeners = [success |-> <<>>, error |-> <<>>]
    /\ session = NoSession
    /\ app = NoApp
    /\ \E k \in CatalogKeys : PvInit(k)

NextProvider ==
    \/ ProviderInit
    \/ ProviderScanVideoFrame
    \/ ProviderScanImage
    \/ ProviderDestroy

SpecProvider == InitProvider /\ [][NextProvider]_vars

\* start() and stop() only; stop() may be called while a start() is still
\* awaiting the provider, the camera or the preview
InitScan ==
    /\ Constructed
    /\ stored \in {"", "dynamsoft", "unknown"}
    /\ listeners = Subscribed
    /\ pv = NoProvider
    /\ pvOut = NoOut
    /\ session = NoSession
    /\ app = NoApp

ScanStep(t) ==
    \/ LoaderSettles(t)
    \/ InitSettles(t)
    \/ SetCurrentAfterLoad(t)
    \/ StartAfterInitializeDefault(t)
    \/ CameraSettles(t, MaxScanLeaked)
    \/ PreviewSettles(t, MaxScanLoops)

NextScan ==
    \/ CallStart(1)
    \/ CallStop(MaxTasks)
    \/ \E t \in 1..MaxTasks : ScanStep(t)
    \/ \E i \in 1..MaxScanLoops : LoopStep(i)

SpecScan == InitScan /\ [][NextScan]_vars

\* One scanning session: start() is called, stop() never is, and the decode
\* calls of the sampling loop are counted
InitSession ==
    /\ Constructed
    /\ stored \in {"", "dynamsoft"}
    /\ listeners = Subscribed
    /\ pv = NoProvider
    /\ pvOut = NoOut
    /\ session = [NoSession EXCEPT !.on = TRUE]
    /\ app = NoApp

SessionStep(t) ==
    \/ LoaderSettles(t)
    \/ InitSettles(t)
    \/ SetCurrentAfterLoad(t)
    \/ StartAfterInitializeDefault(t)
    \/ CameraSettles(t, MaxLeaked)
    \/ PreviewSettles(t, MaxLoops)

NextSession ==
    \/ CallStart(1)
    \/ \E t \in 1..MaxTasks : SessionStep(t)
    \/ \E i \in 1..MaxLoops : LoopStep(i)

SpecSession == InitSession /\ [][NextSession]_vars

CameraStep(t) ==
    \/ LoaderSettles(t)
    \/ InitSettles(t)
    \/ SetCurrentAfterLoad(t)
    \/ StartAfterInitializeDefault(t)
    \/ CameraSettles(t, MaxLeaked)
    \/ PreviewSettles(t, MaxLoops)
    \/ SetProviderAfterSetCurrent(t)

\* The camera side of the scan engine: start, stop, setProvider and cleanup
\* that do not overlap, with the sampling loop running between and during them
NextCamera ==
    \/ CallStart(1)
    \/ CallStop(1)
    \/ CallSetProvider(1)
    \/ CallScannerCleanup(1)
    \/ \E t \in 1..MaxTasks : CameraStep(t)
    \/ \E i \in 1..MaxLoops : LoopStep(i)

SpecCamera == Init /\ [][NextCamera]_vars

\* A scan engine nothing has subscribed to yet
InitEvents ==
    /\ Constructed
    /\ stored = ""
    /\ listeners = [success |-> <<>>, error |-> <<>>]
    /\ pv = NoProvider
    /\ pvOut = NoOut
    /\ session = NoSession
    /\ app = NoApp

EventsStep(t) ==
    \/ LoaderSettles(t)
    \/ InitSettles(t)
    \/ SetCurrentAfterLoad(t)
    \/ StartAfterInitializeDefault(t)
    \/ CameraSettles(t, MaxLeaked)
    \/ PreviewSettles(t, MaxLoops)

\* Subscriptions made at any time between start and stop calls that do not
\* overlap, with the sampling loop running
NextEvents ==
    \/ CallOn(1)
    \/ CallStart(1)
    \/ CallStop(1)
    \/ \E t \in 1..MaxTasks : EventsStep(t)
    \/ \E i \in 1..MaxLoops : LoopStep(i)

SpecEvents == InitEvents /\ [][NextEvents]_vars

(***************************************************************************)
(* formatErrorMessage                                                      *)
(***************************************************************************)
PermissionMessage == "Camera permission denied. Please allow camera access and try again."
NoCameraMessage == "No camera found on this device."
UnsupportedMessage == "Camera not supported in this browser."
ConstraintsMessage == "Camera constraints not supported. Trying with default settings."

\* formatErrorMessage without the error-name cases
FormatErrorGeneric(name, message) == "Error: " \o message

\* formatErrorMessage(error): error.name picks a fixed message, any other
\* error gives `Error: ${error.message}`
FormatErrorMessage(name, message) ==
    IF name = "NotAllowedError" THEN PermissionMessage
    ELSE IF name = "NotFoundError" THEN NoCameraMessage
    ELSE IF name = "NotSupportedError" THEN UnsupportedMessage
    ELSE IF name = "OverconstrainedError" THEN ConstraintsMessage
    ELSE "Error: " \o message

\* Errors handed to formatErrorMessage: the four camera error names, other
\* names (one differing in case only), and messages that are empty, ordinary,
\* equal to a fixed message or already carry the prefix
ErrorNames == {"NotAllowedError", "NotFoundError", "NotSupportedError",
               "OverconstrainedError", "notallowederror", "Error", "TypeError",
               "AbortError"}
ErrorMessages == {"", "Permission denied", "No camera found", "Not supported",
                  "Constraints not satisfied", NoCameraMessage,
                  "Error: Permission denied"}
ErrorInputs == [name : ErrorNames, message : ErrorMessages, out : {""}]

InitFormat ==
    /\ Constructed
    /\ stored = ""
    /\ listeners = Subscribed
    /\ pv = NoProvider
    /\ pvOut = NoOut
    /\ session = NoSession
    /\ app \in {[NoApp EXCEPT !.format = f] : f \in ErrorInputs}

\* formatErrorMessage(error) returns
CallFormatErrorMessage ==
    /\ app.format.out = ""
    /\ app' = [app EXCEPT !.format.out = 
                        FormatErrorMessage(app.format.name, app.format.message)]
    /\ UNCHANGED <<regVars, scanVars, listeners, tasks, eventVars, pvVars, session>>

\* another error is caught
ErrorCaught ==
    /\ app.format.out # ""
    /\ \E f \in ErrorInputs : app' = [app EXCEPT !.format = f]
    /\ UNCHANGED <<regVars, scanVars, listeners, tasks, eventVars, pvVars, session>>

NextFormat == CallFormatErrorMessage \/ ErrorCaught

SpecFormat == InitFormat /\ [][NextFormat]_vars

(***************************************************************************)
(* Benchmark runner: results and report                                    *)
(***************************************************************************)
Undefined == "<undefined>"

DisplayName(k) ==
    CASE k = "zxing" -> "ZXing"
      [] k = "barcode-detector" -> "BarcodeDetector (Native)"
      [] k = "zxing-wasm" -> "ZXing (WASM)"
      [] k = "dynamsoft" -> "Dynamsoft SDK"

\* Durations are JavaScript numbers; quotients are kept as fractions in lowest
\* terms with a positive denominator.
Abs(n) == IF n < 0 THEN 0 - n ELSE n
RECURSIVE GCD(_, _)
GCD(a, b) == IF b = 0 THEN a ELSE GCD(b, a % b)
Ratio(n, d) == LET g == GCD(Abs(n), d) IN [num |-> n \div g, den |-> d \div g]
R(i) == [num |-> i, den |-> 1]
RAdd(a, b) == Ratio(a.num * b.den + b.num * a.den, a.den * b.den)
RDiv(a, n) == Ratio(a.num, a.den * n)
RLess(a, b) == a.num * b.den < b.num * a.den

\* results.filter(r => r.success)
Successful(results) == SelectSeq(results, LAMBDA r : r.success)

\* reduce((sum, r) => sum + r.duration, 0)
RECURSIVE SumDurations(_)
SumDurations(results) ==
    IF results = <<>> THEN R(0)
    ELSE RAdd(SumDurations(SubSeq(results, 1, Len(results) - 1)),
              results[Len(results)].duration)

\* the reducer with `<=`: the later entry wins a tie
FasterOrEqualOf(fastest, current) ==
    IF ~RLess(fastest.duration, current.duration) THEN current ELSE fastest

\* (fastest, current) => current.duration < fastest.duration ? current : fastest
FasterOf(fastest, current) ==
    IF RLess(current.duration, fastest.duration) THEN current ELSE fastest

\* reduce without an initial value: the first element starts as the fastest
RECURSIVE ReduceFastest(_)
ReduceFastest(results) ==
    IF Len(results) = 1 THEN results[1]
    ELSE FasterOf(ReduceFastest(SubSeq(results, 1, Len(results) - 1)),
                  results[Len(results)])

\* successfulResults.length > 0 ? sum / successfulResults.length : 0
AverageDuration(results) ==
    IF Len(Successful(results)) > 0
    THEN RDiv(SumDurations(Successful(results)), Len(Successful(results)))
    ELSE R(0)

\* generateReport(testName, results).summary
GenerateReport(results) ==
    [fastestProvider |-> IF Len(Successful(results)) > 0
                         THEN ReduceFastest(Successful(results)).providerName
                         ELSE NULL,
     averageDuration |-> AverageDuration(results),
     successRate |-> IF Len(results) > 0
                     THEN Ratio(Len(Successful(results)), Len(results))
                     ELSE R(0)]

\* One result entry (threw: the entry was pushed by a catch block); a failed
\* entry of the image benchmark has the duration
\* performance.now() - performance.now(), zero or just below
SuccessEntry(k, duration, text) ==
    [providerName |-> DisplayName(k), success |-> TRUE, duration |-> duration,
     result |-> text, error |-> Undefined, threw |-> FALSE]

FailureEntry(k, duration, err) ==
    [providerName |-> DisplayName(k), success |-> FALSE, duration |-> duration,
     result |-> Undefined, error |-> err, threw |-> TRUE]

\* Result lists handed to generateReport: one entry per provider in catalog
\* order, each a success of 5 or 10 ms or a failure
EntriesOf(k) ==
    {SuccessEntry(k, R(d), "QR1") : d \in {5, 10}}
       \cup {FailureEntry(k, R(d), EngineError) : d \in {0, -1}}
ResultLists ==
    UNION {{rs \in [1..n -> UNION {EntriesOf(k) : k \in CatalogKeys}] :
               \A i \in 1..n : rs[i] \in EntriesOf(Catalog[i])} : n \in 0..MaxResults}

InitReport ==
    /\ Constructed
    /\ stored = ""
    /\ listeners = Subscribed
    /\ pv = NoProvider
    /\ pvOut = NoOut
    /\ session = NoSession
    /\ app \in {[NoApp EXCEPT !.bench.results = rs] : rs \in ResultLists}

\* generateReport(testName, results) returns
CallGenerateReport ==
    /\ app.bench.summary = <<>>
    /\ app' = [app EXCEPT !.bench.summary = GenerateReport(app.bench.results)]
    /\ UNCHANGED <<regVars, scanVars, listeners, tasks, eventVars, pvVars, session>>

\* another result list is reported
ResultsCollected ==
    /\ app.bench.summary # <<>>
    /\ \E rs \in ResultLists : app' = [app EXCEPT !.bench = [NoBench EXCEPT !.results = rs]]
    /\ UNCHANGED <<regVars, scanVars, listeners, tasks, eventVars, pvVars, session>>

NextReport == CallGenerateReport \/ ResultsCollected

SpecReport == InitReport /\ [][NextReport]_vars

(***************************************************************************)
(* Benchmark runner: the runs                                              *)
(***************************************************************************)
BenchOps == {"benchImage", "benchVideo"}
BenchImageErrors == {"Failed to load image", "Failed to read file"}
AllFailedError == "All iterations failed"
\* performance.now() differences in ms: of one scanVideoFrame attempt, of one
\* scanImage call, and the performance.now() - performance.now() of a catch
Durations == {5, 10}
ImageDuration == 10
CaughtDuration == 0

\* a benchmark that makes the provider it loaded the current one
BenchmarkMakesCurrent(cur, prov) == prov

\* The benchmark takes its provider from registry.loadProvider, which does
\* not assign currentProvider
BenchmarkCurrent(cur, prov) == cur

\* benchmarkImageScan: the entry of a scan that returned
\* { success: scanResult !== null, duration, result: scanResult || undefined }
ImageEntry(k, duration, text) ==
    [providerName |-> DisplayName(k), success |-> text # NULL, duration |-> duration,
     result |-> IF Truthy(text) THEN text ELSE Undefined, error |-> Undefined,
     threw |-> FALSE]

\* benchmarkVideoFrame: one attempt of the provider under test
Attempt(r, duration) ==
    IF r.kind = "throw"
    THEN [success |-> FALSE, duration |-> R(0), threw |-> TRUE]
    ELSE [success |-> r.val # NULL, duration |-> duration, threw |-> FALSE]

AllThrew(attempts) ==
    attempts # <<>> /\ \A i \in 1..Len(attempts) : attempts[i].threw

\* the fold with the mean taken over every attempt
FoldAttemptsOverAll(k, attempts, n) ==
    LET ok == Successful(attempts)
    IN [providerName |-> DisplayName(k),
        success |-> Len(ok) > 0,
        duration |-> IF Len(ok) > 0 THEN RDiv(SumDurations(attempts), Len(attempts))
                     ELSE R(0),
        result |-> IF Len(ok) > 0
                   THEN ToString(Len(ok)) \o "/" \o ToString(n) \o " successful"
                   ELSE Undefined,
        error |-> IF Len(ok) = 0 THEN AllFailedError ELSE Undefined,
        threw |-> AllThrew(attempts)]

\* benchmarkVideoFrame: the attempts of one provider folded into its entry
FoldAttempts(k, attempts, n) ==
    LET ok == Successful(attempts)
    IN [providerName |-> DisplayName(k),
        success |-> Len(ok) > 0,
        duration |-> IF Len(ok) > 0 THEN RDiv(SumDurations(ok), Len(ok)) ELSE R(0),
        result |-> IF Len(ok) > 0
                   THEN ToString(Len(ok)) \o "/" \o ToString(n) \o " successful"
                   ELSE Undefined,
        error |-> IF Len(ok) = 0 THEN AllFailedError ELSE Undefined,
        threw |-> AllThrew(attempts)]

\* `for (const providerInfo of providers)`: enter loadProvider for the next
\* catalog entry, or leave the loop
BenchNext(rec) ==
    LET r == [rec EXCEPT !.idx = @ + 1, !.attempts = <<>>, !.prov = 0,
                         !.initOk = FALSE, !.err = NoErr, !.handleAt = FALSE]
    IN IF rec.idx >= Len(Catalog)
       THEN [r EXCEPT !.pc = "bm_done", !.name = ""]
       ELSE LoadProviderCall(loaded, [r EXCEPT !.name = Catalog[rec.idx + 1]])

\* a loop that pushes nothing for a provider that failed
BenchAdvanceSkipsFailures(rec, entry) ==
    BenchNext([rec EXCEPT !.results = IF entry.success
                                      THEN Append(@, entry.providerName) ELSE @])

\* `results.push(...)` at the end of a provider's turn
BenchAdvance(rec, entry) ==
    BenchNext([rec EXCEPT !.results = Append(@, entry.providerName)])

\* benchmarkImageScan(file) up to `await this.loadImage(imageFile)`
CallBenchmarkImageScan(lim) ==
    /\ CanStart(lim)
    /\ tasks' = [tasks EXCEPT ![FreeSlot] =
                    [Entered("benchImage", "") EXCEPT !.pc = "bm_img"]]
    /\ call' = "benchImage"
    /\ last' = NoLast /\ emitted' = NoEmit /\ issued' = NoIssue
    /\ UNCHANGED <<regVars, scanVars, listeners, pvVars, session, app>>

\* loadImage settles: the run rejects, or the loop over the catalog begins
BenchImageLoaded(t) ==
    /\ tasks[t].pc = "bm_img"
    /\ \/ /\ tasks' = [tasks EXCEPT ![t] = BenchNext(tasks[t])]
          /\ last' = NoLast
       \/ \E e \in BenchImageErrors :
             /\ last' = Settled(tasks[t], "throw", 0, e, NULL, inst)
             /\ tasks' = [tasks EXCEPT ![t] = IdleTask]
    /\ call' = "none" /\ emitted' = NoEmit /\ issued' = NoIssue
    /\ UNCHANGED <<regVars, scanVars, listeners, pvVars, session, app>>

\* benchmarkVideoFrame(video, canvas, iterations) up to the first loadProvider
CallBenchmarkVideoFrame(lim) ==
    /\ CanStart(lim)
    /\ \E n \in 0..MaxIterations :
         tasks' = [tasks EXCEPT ![FreeSlot] =
                      BenchNext([Entered("benchVideo", "") EXCEPT !.n = n])]
    /\ call' = "benchVideo"
    /\ last' = NoLast /\ emitted' = NoEmit /\ issued' = NoIssue
    /\ UNCHANGED <<regVars, scanVars, listeners, pvVars, session, app>>

\* The provider's entry is complete: it is shown in `last` as it is pushed,
\* with the place that pushed it ("scanned", "folded" or "caught")
EntryPushed(rec, entry, kind) ==
    [NoLast EXCEPT !.op = IF rec.op = "benchVideo" THEN "videoEntry" ELSE "imageEntry",
                   !.kind = kind, !.name = rec.name, !.idx = rec.idx,
                   !.n = rec.n, !.attempts = rec.attempts,
                   !.results = rec.results, !.entry = entry]

\* benchmarkVideoFrame: `for (let i = 0; i < iterations; i++)` issues the next
\* scanVideoFrame, or the attempts are folded and the next provider is loaded
VideoContinue(t, rec) ==
    IF Len(rec.attempts) >= rec.n
    THEN LET entry == FoldAttempts(rec.name, rec.attempts, rec.n)
         IN /\ tasks' = [tasks EXCEPT ![t] = BenchAdvance(rec, entry)]
            /\ last' = EntryPushed(rec, entry, "folded")
            /\ issued' = NoIssue
    ELSE /\ tasks' = [tasks EXCEPT ![t] =
                         [rec EXCEPT !.pc = "bm_frame",
                                     !.handleAt = inst[rec.prov].handle]]
         /\ last' = NoLast
         /\ issued' = Issue("scanVideoFrame", rec.prov)

\* `await this.registry.loadProvider(providerInfo.name)` settles in a run
BenchAfterLoad(t) ==
    /\ tasks[t].op \in BenchOps
    /\ LoadSettled(t)
    /\ call' = "none" /\ emitted' = NoEmit
    /\ IF tasks[t].pc = "ld_err"
       THEN /\ LET entry == FailureEntry(tasks[t].name, R(CaughtDuration), tasks[t].err)
               IN /\ tasks' = [tasks EXCEPT ![t] = BenchAdvance(tasks[t], entry)]
                  /\ last' = EntryPushed(tasks[t], entry, "caught")
            /\ issued' = NoIssue
            /\ UNCHANGED regCurrent
       ELSE /\ regCurrent' = BenchmarkCurrent(regCurrent, tasks[t].prov)
            /\ IF tasks[t].op = "benchImage"
               THEN /\ tasks' = [tasks EXCEPT ![t].pc = "bm_scan",
                                              ![t].handleAt = inst[tasks[t].prov].handle]
                    /\ issued' = Issue("scanImage", tasks[t].prov)
                    /\ last' = NoLast
               ELSE VideoContinue(t, tasks[t])
    /\ UNCHANGED <<inst, loaded, stored, scanVars, listeners, pvVars, session, app>>

\* benchmarkImageScan: `await provider.scanImage(img)` settles
BenchScanImageSettles(t) ==
    /\ tasks[t].pc = "bm_scan"
    /\ call' = "none" /\ emitted' = NoEmit /\ issued' = NoIssue
    /\ \E r \in {ScanImage(tasks[t].name, tasks[t].handleAt, env) :
                      env \in {e \in ScanEnvs : ~e.isCanvas}} :
         LET entry == IF r.kind = "throw"
                      THEN FailureEntry(tasks[t].name, R(CaughtDuration), r.val)
                      ELSE ImageEntry(tasks[t].name, R(ImageDuration), r.val)
         IN /\ tasks' = [tasks EXCEPT ![t] = BenchAdvance(tasks[t], entry)]
            /\ last' = EntryPushed(tasks[t], entry,
                                    IF r.kind = "throw" THEN "caught" ELSE "scanned")
    /\ UNCHANGED <<regVars, scanVars, listeners, pvVars, session, app>>

\* benchmarkVideoFrame: `await provider.scanVideoFrame(video, canvas)` settles;
\* a result is followed by the 10 ms delay, a throw by the next iteration
BenchFrameSettles(t) ==
    /\ tasks[t].pc = "bm_frame"
    /\ call' = "none" /\ emitted' = NoEmit
    /\ \E r \in {ScanVideoFrame(tasks[t].name, tasks[t].handleAt, env) :
                      env \in ScanEnvs}, d \in Durations :
         LET rec == [tasks[t] EXCEPT !.attempts = Append(@, Attempt(r, R(d)))]
         IN IF r.kind = "throw"
            THEN VideoContinue(t, rec)
            ELSE /\ tasks' = [tasks EXCEPT ![t] = [rec EXCEPT !.pc = "bm_delay"]]
                 /\ last' = NoLast /\ issued' = NoIssue
    /\ UNCHANGED <<regVars, scanVars, listeners, pvVars, session, app>>

\* `await new Promise(resolve => setTimeout(resolve, 10))` settles
BenchDelayElapsed(t) ==
    /\ tasks[t].pc = "bm_delay"
    /\ call' = "none" /\ emitted' = NoEmit
    /\ VideoContinue(t, tasks[t])
    /\ UNCHANGED <<regVars, scanVars, listeners, pvVars, session, app>>

\* `return report` (the summary of a result list is GenerateReport)
BenchReturns(t) ==
    /\ tasks[t].pc = "bm_done"
    /\ last' = Settled(tasks[t], "value", 0, NoErr, NULL, inst)
    /\ tasks' = [tasks EXCEPT ![t] = IdleTask]
    /\ call' = "none" /\ emitted' = NoEmit /\ issued' = NoIssue
    /\ UNCHANGED <<regVars, scanVars, listeners, pvVars, session, app>>

BenchStep(t) ==
    \/ LoaderSettles(t)
    \/ InitSettles(t)
    \/ SetCurrentAfterLoad(t)
    \/ SetCurrentProviderReturns(t)
    \/ BenchImageLoaded(t)
    \/ BenchAfterLoad(t)
    \/ BenchScanImageSettles(t)
    \/ BenchFrameSettles(t)
    \/ BenchDelayElapsed(t)
    \/ BenchReturns(t)

\* Benchmark runs and provider switches that do not overlap
NextBenchmark ==
    \/ CallSetCurrentProvider(1)
    \/ CallBenchmarkImageScan(1)
    \/ CallBenchmarkVideoFrame(1)
    \/ \E t \in 1..MaxTasks : BenchStep(t)

InitBenchmark ==
    /\ Constructed
    /\ stored = ""
    /\ listeners = Subscribed
    /\ pv = NoProvider
    /\ pvOut = NoOut
    /\ session = NoSession
    /\ app = NoApp

SpecBenchmark == InitBenchmark /\ [][NextBenchmark]_vars

(***************************************************************************)
(* Application: the image upload input                                     *)
(***************************************************************************)
\* The user's selections in the file dialog: a file is chosen (the input's
\* value is its path), or the change event carries no file, with or without
\* a value left in the input
Selections == {[value |-> "test-file-path", files |-> TRUE],
               [value |-> "original-value", files |-> FALSE],
               [value |-> "", files |-> FALSE]}

FileChosen ==
    /\ CanStart(1)
    /\ \E sel \in Selections :
         app' = [app EXCEPT !.value = sel.value, !.files = sel.files]
    /\ call' = "none" /\ last' = NoLast /\ emitted' = NoEmit /\ issued' = NoIssue
    /\ UNCHANGED <<regVars, scanVars, listeners, tasks, pvVars, session>>

\* handleImageUpload(event): `if (file) await this.processImageFile(file)`,
\* which awaits scanner.scanImageFile(file) and catches what it rejects with
CallHandleImageUpload(lim) ==
    IF app.files
    THEN CallScanImageFile(lim)
    ELSE /\ CanStart(lim)
         /\ call' = "handleImageUpload"
         /\ last' = [NoLast EXCEPT !.op = "handleImageUpload", !.kind = "value"]
         /\ emitted' = NoEmit /\ issued' = NoIssue
         /\ UNCHANGED <<regVars, scanVars, listeners, tasks, pvVars, session, app>>

UploadStep(t) ==
    \/ LoaderSettles(t)
    \/ InitSettles(t)
    \/ SetCurrentAfterLoad(t)
    \/ FileReadSettles(t)
    \/ ImageSettles(t)
    \/ ScanImageAfterInitializeDefault(t)
    \/ ScanImageSettles(t)

\* Change events of the image input, one handled at a time
NextUpload ==
    \/ FileChosen
    \/ CallHandleImageUpload(1)
    \/ \E t \in 1..MaxTasks : UploadStep(t)

SpecUpload == Init /\ [][NextUpload]_vars

InitImage ==
    /\ Constructed
    /\ stored \in {"", "dynamsoft", "unknown"}
    /\ listeners = Subscribed
    /\ pv = NoProvider
    /\ pvOut = NoOut
    /\ session = NoSession
    /\ app = NoApp

ImageStep(t) ==
    \/ LoaderSettles(t)
    \/ InitSettles(t)
    \/ SetCurrentAfterLoad(t)
    \/ SetProviderAfterSetCurrent(t)
    \/ FileReadSettles(t)
    \/ ImageSettles(t)
    \/ ScanImageAfterInitializeDefault(t)
    \/ ScanImageSettles(t)

\* The image side of the scan engine: scanImageFile, setProvider and cleanup
\* that do not overlap, the camera never started
NextImage ==
    \/ CallScanImageFile(1)
    \/ CallSetProvider(1)
    \/ CallScannerCleanup(1)
    \/ \E t \in 1..MaxTasks : ImageStep(t)

SpecImage == InitImage /\ [][NextImage]_vars

(***************************************************************************)
(* Properties                                                              *)
(***************************************************************************)
WasInitialized(i) == i <= Len(inst) /\ (inst[i].handle \/ inst[i].destroyed)

\* C1: a load(N) or setCurrent(N) that succeeds returns an initialized
\* instance that has never been destroyed, also when N's instance was
\* destroyed by an earlier setCurrent.
C1_ReloadAfterDestroyIsFresh ==
    (last.op \in {"load", "setCurrent"} /\ last.kind = "value")
        => (last.retHandle /\ ~last.retDestroyed)

\* C2: no scanVideoFrame or scanImage call is issued on a provider instance
\* that has been destroyed.
C2_NoDecodeOnDestroyedProvider ==
    issued.op # "none" => ~issued.destroyed

\* C3: setCurrent of a name outside the catalog fails with the
\* unknown-provider error and leaves the current provider, its initialized
\* state and the persisted preference as they were.
C3_UnknownNameLeavesCurrentIntact ==
    (last.op = "setCurrent" /\ last.name \notin CatalogKeys)
        => /\ last.kind = "throw"
           /\ last.err = UnknownError(last.name)
           /\ regCurrent = last.cur0
           /\ HandleOf(regCurrent) = last.handle0
           /\ stored = last.stored0

\* C4: a setCurrent(B) entered while A # B is current invokes A's destroy()
\* exactly once, and A is already destroyed in every state of the call,
\* those before B becomes current included.
C4_PreviousDestroyedOnceBeforeSwitch ==
    /\ \A t \in 1..MaxTasks :
          (tasks[t].op = "setCurrent" /\ tasks[t].cur0 # 0
              /\ tasks[t].name # inst[tasks[t].cur0].name)
          => /\ tasks[t].destroyCalls = 1
             /\ inst[tasks[t].cur0].destroyed
             /\ ~inst[tasks[t].cur0].handle
    /\ (last.op = "setCurrent" /\ last.kind = "value" /\ last.cur0 # 0
           /\ last.name # inst[last.cur0].name)
          => /\ last.destroyCalls = 1
             /\ inst[last.cur0].destroyed
             /\ regCurrent = last.ret

C4_Witness_SwitchedAfterDestroy ==
    /\ last.op = "setCurrent" /\ last.kind = "value"
    /\ last.cur0 # 0 /\ last.handle0 /\ last.ret # last.cur0
    /\ regCurrent = last.ret /\ last.retHandle
    /\ inst[last.cur0].destroyed

\* C5: scanVideoFrame and scanImage on an instance that is not initialized
\* (never initialized, or destroyed) fail with the variant's not-initialized
\* error.
C5_ScanBeforeInitFailsNotInitialized ==
    (pvOut.op \in {"scanVideoFrame", "scanImage"} /\ ~pvOut.before)
        => (pvOut.kind = "throw" /\ pvOut.val = NotInitError(pv.name))

\* C6: destroy() never throws and leaves the instance uninitialized, on a
\* never-initialized instance and when repeated.
C6_DestroyIsIdempotent ==
    pvOut.op = "destroy" => (pvOut.kind = "value" /\ ~pv.handle)

C6_Witness_DestroyedTwice ==
    /\ pvOut.op = "destroy" /\ pvOut.kind = "value"
    /\ pv.wasInit /\ pv.destroys = 2 /\ ~pvOut.before

\* C7: a load that finds the name cached returns the cached instance and
\* runs neither the loader nor init(); a load that misses runs each once and
\* caches what it returns; no instance exists after construction, and one is
\* constructed only when the loader of a missing load has settled (never in
\* getAvailableProviders).
C7_CacheHitReturnsCachedWithoutInit ==
    /\ Len(inst) = 0
    /\ [](/\ (last.op = "load" /\ last.cached0 # 0)
                => /\ last.kind = "value"
                   /\ last.ret = last.cached0
                   /\ last.loaders = 0 /\ last.inits = 0
          /\ (last.op = "load" /\ last.kind = "value" /\ last.cached0 = 0)
                => /\ last.loaders = 1 /\ last.inits = 1
                   /\ loaded[last.name] = last.ret)
    /\ [][/\ Len(inst') > Len(inst)
             => \E t \in 1..MaxTasks : /\ tasks[t].pc = "ld_loader"
                                       /\ tasks[t].cached0 = 0
                                       /\ tasks'[t].pc = "ld_init"
          /\ call' = "getAvailableProviders" => UNCHANGED <<inst, loaded>>]_vars

C7_Witness_CacheHit ==
    /\ last.op = "load" /\ last.kind = "value"
    /\ last.cached0 # 0 /\ last.ret = last.cached0 /\ last.retHandle

\* C8: a load or setCurrent that fails reports the unknown-provider error for
\* a name outside the catalog and the loader's or init()'s error otherwise,
\* leaves no cache entry for the name and the current pointer where it was;
\* only instances whose init() resolved are cached or current; and a call for
\* an uncached catalog name runs the loader, and init() when it succeeds.
C8_FailedLoadIsNotCached ==
    /\ (last.op \in {"load", "setCurrent"} /\ last.kind = "throw")
          => /\ last.name \notin CatalogKeys => last.err = UnknownError(last.name)
             /\ last.name \in CatalogKeys
                   => (loaded[last.name] = 0 /\ last.err \in {LoaderError, EngineError})
             /\ regCurrent = last.cur0
    /\ \A k \in CatalogKeys : loaded[k] # 0 => WasInitialized(loaded[k])
    /\ regCurrent # 0 => WasInitialized(regCurrent)
    /\ (last.op \in {"load", "setCurrent"} /\ last.name \in CatalogKeys /\ last.cached0 = 0)
          => (last.loaders = 1 /\ (last.kind = "value" => last.inits = 1))

C8_Witness_InitFailed ==
    /\ last.op = "setCurrent" /\ last.kind = "throw"
    /\ last.err = EngineError /\ last.inits = 1
    /\ loaded[last.name] = 0

\* C9: a start() entered while the engine is scanning settles at once, makes
\* no camera request, enters no loop and changes nothing of the registry,
\* the engine or the calls in flight.
C9_StartWhileScanningIsNoOp ==
    [][(call' = "start" /\ isScanning)
          => /\ UNCHANGED <<regVars, scanVars, tasks>>
             /\ last'.op = "start" /\ last'.kind = "value" /\ last'.gum = 0
             /\ issued' = NoIssue /\ emitted' = NoEmit]_vars

C9_Witness_StartIgnored ==
    /\ call = "start" /\ last.op = "start" /\ last.kind = "value"
    /\ isScanning /\ stream /\ Len(loops) > 0

\* C10: when start() fails, also the start() that setProvider makes to
\* resume, every 'error' listener is called exactly once, in order, with the
\* error the call rejects with, and the engine is not scanning.
C10_StartFailureEmitsError ==
    ((last.op = "start" \/ (last.op = "setProvider" /\ last.gum > 0))
        /\ last.kind = "throw")
        => /\ emitted.event = "error"
           /\ emitted.data = last.err
           /\ emitted.called = listeners["error"]
           /\ ~isScanning

C10_Witness_CameraRejected ==
    /\ last.op = "start" /\ last.kind = "throw" /\ last.err \in CameraErrors
    /\ emitted.event = "error" /\ Len(emitted.called) = 2 /\ ~isScanning

NScan == Cardinality({i \in 1..Len(loops) : loops[i].st = "scan"})
NTimer == Cardinality({i \in 1..Len(loops) : loops[i].st = "timer"})
ActiveStreams == (IF stream THEN 1 ELSE 0) + leaked

\* C11: stop() never throws; after it the scanning flag is false, no stream
\* is held (its tracks are stopped, it is not left live elsewhere) and the
\* preview is detached; it touches nothing else, and called in a state that
\* is already stopped it changes nothing.
C11_StopIsIdempotent ==
    [][call' = "stop"
          => /\ last'.op = "stop" /\ last'.kind = "value"
             /\ ~isScanning' /\ ~stream' /\ ~srcObject'
             /\ emitted' = NoEmit /\ issued' = NoIssue
             /\ UNCHANGED <<regVars, scCurrent, leaked, onloaded, loops, listeners, tasks>>
             /\ (~isScanning /\ ~stream /\ ~srcObject) => UNCHANGED scanVars]_vars

C11_Witness_StoppedWhileScanning ==
    /\ call = "stop" /\ last.op = "stop" /\ last.kind = "value"
    /\ ~isScanning /\ ~stream /\ ~srcObject
    /\ Len(loops) > 0

\* C12 (as stated): in one session, if the decode calls return null until one
\* returns a non-null text, exactly one 'success' event is emitted, with that
\* text, after exactly (nulls + 1) calls, and no call follows.
C12_Original_FirstTextEndsSession ==
    (session.on /\ session.throws = 0 /\ session.texts >= 1)
        => /\ session.successes = 1
           /\ session.calls = session.nulls + 1
           /\ session.sent = session.got

\* C12 (amended): the same, provided the text is not empty and the snapshot of
\* the frame can be taken; and a 'success' event is only ever emitted once in
\* a session, for a returned text, after which no loop activation is left.
C12_FirstTextEndsSession ==
    session.on
        => /\ (session.throws = 0 /\ session.texts >= 1 /\ session.dropped = 0)
                 => /\ session.successes = 1
                    /\ session.calls = session.nulls + 1
                    /\ session.sent = session.got
           /\ emitted.event = "success"
                 => /\ session.successes = 1
                    /\ emitted.data = session.sent
                    /\ Truthy(emitted.data)
                    /\ emitted.called = listeners["success"]
           /\ session.successes <= 1
           /\ session.successes = 1 => loops = <<>>

C12_Witness_ThirdFrameDecodes ==
    /\ session.on /\ session.calls = 3 /\ session.nulls = 2
    /\ session.throws = 0 /\ session.successes = 1
    /\ emitted.event = "success" /\ isScanning

\* C13: a decode call that throws in the sampling loop emits nothing and
\* leaves the activation waiting for its timer; 'error' is emitted only by a
\* failing start(); and an activation ends only with a 'success' event or
\* with the flag cleared by stop().
C13_FrameErrorKeepsLoop ==
    /\ [](/\ (last.op = "scanFrame" /\ last.got.kind = "throw")
                => (emitted = NoEmit /\ NTimer >= 1)
          /\ emitted.event = "error" => last.op = "start")
    /\ [][Len(loops') < Len(loops)
             => (emitted'.event = "success" \/ ~isScanning)]_vars

C13_Witness_FrameThrew ==
    /\ last.op = "scanFrame" /\ last.got.kind = "throw"
    /\ isScanning /\ NTimer >= 1

\* C14: at most one decode call of the sampling loop is outstanding and at
\* most one next-iteration timer is pending.
C14_OneAttemptAtATime ==
    NScan <= 1 /\ NTimer <= 1

\* C15: at most one unstopped camera stream and at most one sampling loop
\* exist at any time.
C15_OneStreamOneLoop ==
    ActiveStreams <= 1 /\ Len(loops) <= 1

C17_NonImageFileRejected ==
    /\ []((last.op = "scanImageFile" /\ (last.file = <<>> \/ Head(last.file) # "image/"))
             => /\ call = "scanImageFile"
                /\ last.kind = "throw" /\ last.err = InvalidFileError
                /\ last.loaders = 0 /\ last.inits = 0
                /\ last.got = NoGot
                /\ issued = NoIssue)
    /\ [][(last'.op = "scanImageFile" /\ (last'.file = <<>> \/ Head(last'.file) # "image/"))
             => UNCHANGED <<regVars, scanVars, tasks>>]_vars

C17_Witness_TextFileRejected ==
    /\ call = "scanImageFile" /\ last.op = "scanImageFile"
    /\ last.file = <<"text/", "plain">>
    /\ last.kind = "throw" /\ last.err = InvalidFileError

C19_OperationalFailureDistinct ==
    (last.op = "scanImageFile" /\ last.got.kind = "throw")
        => /\ last.kind = "throw"
           /\ last.err = last.got.val
           /\ last.err # NoBarcodeError

\* C20: while setProvider awaits the registry the engine is not scanning and,
\* if it was, holds no stream; when it re-enters start() the engine's
\* provider is the registry's current one and is initialized; and it resumes
\* (one camera request, scanning afterwards) exactly when scanning was
\* active at the call.
C20_SwitchIsSequential ==
    /\ \A t \in 1..MaxTasks :
          tasks[t].op = "setProvider"
             => /\ tasks[t].pc \notin {"gum", "meta"}
                      => (~isScanning /\ tasks[t].gum = 0 /\ (tasks[t].was => ~stream))
                /\ tasks[t].pc \in {"gum", "meta"}
                      => /\ tasks[t].was /\ tasks[t].gum = 1
                         /\ scCurrent = regCurrent
                         /\ HandleOf(scCurrent)
    /\ (last.op = "setProvider" /\ last.kind = "value")
          => /\ last.was <=> last.gum = 1
             /\ last.was <=> isScanning
    /\ (last.op = "setProvider" /\ ~last.was) => last.gum = 0

\* C25: a setCurrent that succeeds has written its name to the persisted
\* preference, unless the write threw, in which case the preference is as it
\* was and the call still returns the new provider, which is the current
\* one; a setCurrent that fails leaves the preference as it was.
C25_SuccessfulSwitchPersistsName ==
    last.op = "setCurrent"
        => IF last.kind = "value"
           THEN /\ last.ret # 0 /\ regCurrent = last.ret
                /\ inst[last.ret].name = last.name
                /\ stored = (IF last.writeFailed THEN last.stored0 ELSE last.name)
           ELSE /\ last.kind = "throw"
                /\ stored = last.stored0

C25_Witness_WriteFailureSwallowed ==
    /\ last.op = "setCurrent" /\ last.kind = "value" /\ last.writeFailed
    /\ regCurrent = last.ret /\ stored # last.name

\* C26: getPreferred never throws and returns the persisted name when one is
\* stored and readable, 'zxing' otherwise; initializeDefault is setCurrent
\* of that name: it settles as setCurrent does and the provider it makes
\* current carries that name.
C26_PreferredNameOrFallback ==
    /\ last.op = "getPreferred"
          => /\ last.kind = "value"
             /\ last.text = (IF ~last.readFailed /\ stored # "" THEN stored ELSE "zxing")
             /\ call = "getPreferred"
    /\ last.op = "initDefault"
          => /\ last.name = (IF ~last.readFailed /\ last.stored0 # ""
                             THEN last.stored0 ELSE "zxing")
             /\ IF last.kind = "value"
                THEN /\ last.ret # 0 /\ regCurrent = last.ret
                     /\ inst[last.ret].name = last.name
                     /\ stored = (IF last.writeFailed THEN last.stored0 ELSE last.name)
                ELSE /\ last.kind = "throw"
                     /\ last.err \in {UnknownError(last.name), LoaderError, EngineError}
                     /\ stored = last.stored0
                     /\ regCurrent = last.cur0

C26_Witness_UnreadableFallsBack ==
    /\ last.op = "getPreferred" /\ last.readFailed
    /\ stored = "dynamsoft" /\ last.text = "zxing"

\* C27: right after cleanup() the registry has no current provider, the load
\* cache is empty and every instance it had cached is uninitialized; a load
\* that finds no cached instance and succeeds has run the loader and init()
\* once and returns a new, initialized instance.
C27_CleanupDestroysAll ==
    /\ last.op = "cleanup"
          => /\ regCurrent = 0
             /\ \A k \in CatalogKeys : loaded[k] = 0
             /\ \A i \in 1..Len(inst) : ~inst[i].handle /\ inst[i].destroyed
    /\ (last.op = "load" /\ last.kind = "value" /\ last.cached0 = 0)
          => /\ last.loaders = 1 /\ last.inits = 1
             /\ last.made = last.ret
             /\ last.retHandle /\ ~last.retDestroyed

C27_Witness_FreshLoadAfterCleanup ==
    /\ last.op = "load" /\ last.kind = "value" /\ last.cached0 = 0
    /\ \E i \in 1..Len(inst) :
          i # last.ret /\ inst[i].name = last.name /\ inst[i].destroyed
    /\ \A k \in CatalogKeys : loaded[k] \in {0, last.ret}

\* C28: an emitted 'success' or 'error' event calls the listeners registered
\* for its kind, each once and in registration order, with the one payload,
\* and no listener of the other kind, however many are registered.
C28_EveryListenerOfTheKindOnce ==
    emitted.event # "none"
        => /\ emitted.event \in {"success", "error"}
           /\ emitted.called = listeners[emitted.event]
           /\ \A i, j \in 1..Len(emitted.called) :
                 i # j => emitted.called[i] # emitted.called[j]
           /\ \A i \in 1..Len(emitted.called) :
                 \A k \in {"success", "error"} \ {emitted.event} :
                    \A j \in 1..Len(listeners[k]) : emitted.called[i] # listeners[k][j]

C28_Witness_TwoSuccessListeners ==
    /\ emitted.event = "success"
    /\ Len(listeners["success"]) = 2 /\ Len(listeners["error"]) = 1
    /\ emitted.called = listeners["success"]

\* C29: formatErrorMessage gives the four camera error names four fixed
\* messages, no two of them equal, and every other error 'Error: ' followed
\* by the error's message.
C29_FourFixedMessagesElseGeneric ==
    LET f == app.format
        fixed == [n \in {"NotAllowedError", "NotFoundError", "NotSupportedError",
                         "OverconstrainedError"} |->
                     CASE n = "NotAllowedError" ->
                            "Camera permission denied. Please allow camera access and try again."
                       [] n = "NotFoundError" -> "No camera found on this device."
                       [] n = "NotSupportedError" -> "Camera not supported in this browser."
                       [] n = "OverconstrainedError" ->
                            "Camera constraints not supported. Trying with default settings."]
    IN /\ \A m, n \in DOMAIN fixed : m # n => fixed[m] # fixed[n]
       /\ f.out # ""
             => IF f.name \in DOMAIN fixed
                THEN f.out = fixed[f.name]
                ELSE f.out = "Error: " \o f.message

C29_Witness_OverconstrainedFormatted ==
    /\ app.format.name = "OverconstrainedError"
    /\ app.format.message = "Constraints not satisfied"
    /\ app.format.out = "Camera constraints not supported. Trying with default settings."

\* C30: when the handling of a change event that carries a file has
\* finished, the image input's value is the empty string; handling a change
\* event without a file leaves the value as it was.
C30_InputResetAfterUpload ==
    /\ [](last.op = "scanImageFile" => app.value = "")
    /\ [][call' = "handleImageUpload" => app'.value = app.value]_vars

\* C23: the summary of a result list names as fastest the provider of the
\* earliest entry whose duration is minimal among the successful entries
\* (null when none succeeded), gives as average the sum of the successful
\* entries' durations divided by their number (0 when none), and as success
\* rate the number of successful entries divided by the number of entries
\* (0 for the empty list).
C23_SummaryOfResults ==
    LET rs == app.bench.results
        sm == app.bench.summary
        S == {i \in 1..Len(rs) : rs[i].success}
        n == Cardinality(S)
        first == CHOOSE i \in S :
                    \A j \in S : /\ ~RLess(rs[j].duration, rs[i].duration)
                                 /\ (rs[j].duration = rs[i].duration => i <= j)
        RECURSIVE Total(_)
        Total(T) == IF T = {} THEN 0
                    ELSE LET i == CHOOSE x \in T : TRUE
                         IN rs[i].duration.num + Total(T \ {i})
    IN sm # <<>>
          => /\ sm.fastestProvider = (IF S = {} THEN NULL ELSE rs[first].providerName)
             /\ sm.averageDuration.den > 0 /\ sm.successRate.den > 0
             /\ IF S = {} THEN sm.averageDuration.num = 0
                ELSE sm.averageDuration.num * n = Total(S) * sm.averageDuration.den
             /\ IF rs = <<>> THEN sm.successRate.num = 0
                ELSE sm.successRate.num * Len(rs) = n * sm.successRate.den

C23_Witness_OneOfTwoSucceeds ==
    /\ Len(app.bench.results) = 2
    /\ app.bench.results[1].success /\ app.bench.results[1].duration = R(10)
    /\ ~app.bench.results[2].success
    /\ app.bench.summary # <<>>
    /\ app.bench.summary.successRate = [num |-> 1, den |-> 2]
    /\ app.bench.summary.fastestProvider = "ZXing"
    /\ app.bench.summary.averageDuration = R(10)

\* C21: a benchmark run, of an image or of video frames, leaves the registry's
\* current provider and the persisted provider name as it found them, at every
\* step of the run and when it settles, whether or not providers fail.
C21_BenchmarkLeavesCurrentAlone ==
    /\ \A t \in 1..MaxTasks :
         tasks[t].op \in BenchOps =>
            regCurrent = tasks[t].cur0 /\ stored = tasks[t].stored0
    /\ last.op \in BenchOps =>
          regCurrent = last.cur0 /\ stored = last.stored0

\* a video benchmark returned its report while a provider was current, after
\* loading and initializing a provider of its own
C21_Witness_RunBesideCurrent ==
    /\ last.op = "benchVideo" /\ last.kind = "value"
    /\ last.cur0 # 0 /\ last.stored0 # ""
    /\ last.inits > 0 /\ Len(inst) > 1

\* C22 as stated: one entry per provider in catalog order, and every provider
\* for which a load, an init or a scan threw has an entry with success = false
\* and an error message.
C22_Original_AnyThrowFails ==
    /\ (last.op \in BenchOps /\ last.kind = "value") =>
          last.results = [i \in 1..Len(Catalog) |-> DisplayName(Catalog[i])]
    /\ last.op \in {"imageEntry", "videoEntry"} =>
          /\ Len(last.results) = last.idx - 1
          /\ last.entry.providerName = DisplayName(Catalog[last.idx])
          /\ (\/ last.kind = "caught"
              \/ \E i \in 1..Len(last.attempts) : last.attempts[i].threw) =>
                ~last.entry.success /\ last.entry.error \notin {Undefined, ""}

\* C22: a benchmark run that returns a report has pushed exactly one entry
\* per registered provider, in catalog order; an entry pushed by a catch
\* block (the load, the init or the image scan threw), or folded from video
\* attempts that all threw, has success = false and an error message, and
\* the loop goes on to the next provider.
C22_OneEntryPerProvider ==
    /\ (last.op \in BenchOps /\ last.kind = "value") =>
          last.results = [i \in 1..Len(Catalog) |-> DisplayName(Catalog[i])]
    /\ last.op \in {"imageEntry", "videoEntry"} =>
          /\ last.idx \in 1..Len(Catalog)
          /\ Len(last.results) = last.idx - 1
          /\ last.entry.providerName = DisplayName(Catalog[last.idx])
          /\ last.entry.threw =>
                ~last.entry.success /\ last.entry.error \notin {Undefined, ""}

\* the last provider of the catalog is scanned with success in a run whose
\* first provider failed to load
C22_Witness_LastScannedAfterFailure ==
    /\ last.op = "imageEntry" /\ last.kind = "scanned"
    /\ last.idx = Len(Catalog) /\ last.entry.success
    /\ loaded[Catalog[1]] = 0

\* C24: for a provider that loads, benchmarkVideoFrame folds exactly n
\* attempts, throwing ones included, into one entry: success iff an attempt
\* succeeded, the mean duration of the successful attempts, the result
\* '<s>/<n> successful' when s > 0 and the error 'All iterations failed' when
\* s = 0.
C24_VideoFoldsAttempts ==
    (last.op = "videoEntry" /\ last.kind = "folded") =>
       LET a == last.attempts
           e == last.entry
           s == Cardinality({i \in 1..Len(a) : a[i].success})
           sum[i \in 0..Len(a)] ==
               IF i = 0 THEN 0
               ELSE sum[i - 1] + (IF a[i].success THEN a[i].duration.num ELSE 0)
       IN /\ Len(a) = last.n
          /\ e.success = (s > 0)
          /\ s > 0 =>
                /\ e.duration.num * s = sum[Len(a)] * e.duration.den
                /\ e.result = ToString(s) \o "/" \o ToString(last.n) \o " successful"
          /\ s = 0 => e.error = AllFailedError

\* two attempts, the first threw and the second found a code
C24_Witness_ThrowThenSuccess ==
    /\ last.op = "videoEntry" /\ last.kind = "folded"
    /\ last.n = 2 /\ Len(last.attempts) = 2
    /\ last.attempts[1].threw /\ last.attempts[2].success
    /\ last.entry.result = "1/2 successful"

\* C33: whenever no registry call is in flight, the registry's current
\* provider is null or an instance that holds its engine and has not been
\* destroyed.
C33_CurrentIsNullOrInitialized ==
    Busy = {} =>
       \/ regCurrent = 0
       \/ inst[regCurrent].handle /\ ~inst[regCurrent].destroyed

\* C34: whenever no scan-engine operation is in progress, the provider the
\* scan engine decodes with is the registry's current provider, or both are
\* null.
C34_EngineProviderIsRegistryCurrent ==
    Busy = {} => scCurrent = regCurrent

\* C35: whenever the scan engine is in the scanning state, a sampling-loop
\* activation is alive (its decode call in flight or its timer pending).
C35_ScanningHasLoop ==
    isScanning => loops # <<>>

\* C36: a 'success' event is emitted only while the engine is scanning or a
\* start() call is in flight, never between a stop() and the next start().
C36_NoSuccessAfterStop ==
    emitted.event = "success" =>
       isScanning \/ \E t \in 1..MaxTasks : tasks[t].op = "start"

\* C37: when start() (called directly or by setProvider) fails because the
\* preview did not become ready, the scan engine holds no stream.
C37_FailedStartReleasesStream ==
    (last.op \in {"start", "setProvider"} /\ last.kind = "throw"
        /\ last.err = PreviewError) => ~stream

\* C38: once every loadProvider call has settled, the instance a call resolved
\* to is the one the cache holds for its name, and every instance that holds
\* its engine is in the cache, where cleanup() reaches it.
C38_OverlappingLoadsShareInstance ==
    Busy = {} =>
       /\ (last.op = "load" /\ last.kind = "value") => last.ret = loaded[last.name]
       /\ \A i \in 1..Len(inst) :
             (inst[i].handle /\ ~inst[i].destroyed) => loaded[inst[i].name] = i

\* C39: once every setProvider call has completed, the last of them with
\* success, and the provider requested last (the one the selector holds) was
\* loaded, the registry's current provider is a provider of the name
\* requested last.
C39_LastRequestWins ==
    (/\ Busy = {} /\ last.op = "setProvider" /\ last.kind = "value"
     /\ loaded[app.select] # 0) =>
       /\ regCurrent # 0
       /\ inst[regCurrent].name = app.select

\* C31: in the application, once a decode of the live scan has been handled
\* and until the user opens the camera again, the engine is not scanning, it
\* holds no stream and no scanVideoFrame call is made.
C31_DecodeEndsTheScan ==
    app.decoded => /\ ~isScanning
                   /\ ~stream
                   /\ issued.op # "scanVideoFrame"

\* C32: when the startup of the application has made a provider current and
\* the record held a catalog name P when it began, the provider made current
\* is of name P and the record still holds P.
C32_StartupHonoursPreference ==
    (/\ last.op = "setProvider" /\ last.kind = "value"
     /\ last.stored0 \in CatalogKeys) =>
        /\ scCurrent # 0
        /\ inst[scCurrent].name = last.stored0
        /\ stored = last.stored0

\* C40: when every provider switch succeeds, the camera is never closed and
\* every frame shows a code the engine decodes, scanning leads to a 'success'
\* event.
C40_ScanningLeadsToSuccess ==
    [](last.op = "setProvider" => last.kind = "value")
       => [](isScanning => <>(emitted.event = "success"))

====
